---- MODULE Spec2Model ----
(***************************************************************************)
(* Model of scripts/detect_schema_changes.py: the schema-change detector   *)
(* that parses comment-embedded schema declarations from a notebook, diffs *)
(* them against the baseline kept in output_schema.json and classifies     *)
(* every difference as BREAKING or SAFE.                                   *)
(*                                                                         *)
(* A Python dict is a function with a finite domain (a record when the     *)
(* keys are fixed strings); a dict without a key is a function whose       *)
(* DOMAIN lacks it.  The order in which a dict or a set is iterated is an  *)
(* input of the operation that iterates it.                                *)
(***************************************************************************)
EXTENDS Integers, Sequences, FiniteSets, TLC

VARIABLES
    old_schema,             \* detect_changes: first argument
    new_schema,             \* detect_changes: second argument
    changes,                \* detect_changes: the returned list
    called,                 \* whether detect_changes has returned
    notebook,               \* the notebook file: its lines, each a sequence of characters
    schema_file,            \* output_schema.json beside the notebook
    file_before,            \* history: output_schema.json when the invocation started
    fail_on_breaking,       \* args.fail_on_breaking of the last invocation
    pc,                     \* "ready", "exited" (sys.exit reached) or "aborted" (exception)
    has_breaking_changes,   \* main: first component of run()'s result
    all_changes,            \* main: second component of run()'s result
    exit_code,              \* the process's exit status
    previous_exit,          \* history: <<status>> of the completed run just before, on the
                            \* same notebook; <<>> when there is none
    source,                 \* extraction: the declarations the notebook text was written from
    schemas,                \* extraction: the snapshot extract_schema_from_notebook returned
    extract_done,           \* whether extract_schema_from_notebook has returned
    earlier                 \* extraction: <<snapshot>> returned by the call before the
                            \* last one; <<>> when there was one call only

diff_vars == <<old_schema, new_schema, changes, called>>
run_vars == <<notebook, schema_file, file_before, fail_on_breaking, pc,
              has_breaking_changes, all_changes, exit_code, previous_exit>>
extract_vars == <<source, schemas, extract_done, earlier>>
detector_vars == <<diff_vars, run_vars, extract_vars>>

\* scripts/trigger_fabric_deployment_pipeline.py
VARIABLES
    source_stage,           \* args.source_stage
    target_stage,           \* args.target_stage
    info,                   \* args.info
    no_wait,                \* args.no_wait
    pipeline_pc,            \* where main is: "main", "token", "info", "stages", "deploy",
                            \* "polling" or "exited"
    token,                  \* whether an access token has been acquired
    requests_sent,          \* the kinds of request sent to the Fabric API so far
    elapsed,                \* _wait_for_deployment: time.time() - start_time, in seconds
    status,                 \* _wait_for_deployment: what the last poll observed
    success,                \* <<value>> returned by deploy_to_stage; <<>> before it returns
    pipeline_exit           \* <<status>> the process exited with; <<>> while it runs

pipeline_vars == <<source_stage, target_stage, info, no_wait, pipeline_pc, token,
                   requests_sent, elapsed, status, success, pipeline_exit>>

\* The script is not running.
PipelineIdle ==
    /\ source_stage = 0
    /\ target_stage = 0
    /\ info = FALSE
    /\ no_wait = FALSE
    /\ pipeline_pc = "main"
    /\ token = FALSE
    /\ requests_sent = {}
    /\ elapsed = 0
    /\ status = "none"
    /\ success = <<>>
    /\ pipeline_exit = <<>>

\* scripts/validate_deployment.py
VARIABLES
    strict_mode,            \* args.strict_mode
    environment,            \* args.environment
    validate_pc,            \* where main is: "main", "access", "notebooks", "state",
                            \* "results" or "exited"
    checks,                 \* validate_deployment: the (name, result) pairs collected
    warned,                 \* the checks that printed a warning
    validate_exit           \* <<status>> the process exited with; <<>> while it runs

validation_vars == <<strict_mode, environment, validate_pc, checks, warned, validate_exit>>

\* The script is not running.
ValidationIdle ==
    /\ strict_mode = FALSE
    /\ environment = "dev"
    /\ validate_pc = "main"
    /\ checks = <<>>
    /\ warned = {}
    /\ validate_exit = <<>>

\* scripts/deploy_to_fabric.py
VARIABLES
    artifact_type,          \* args.artifact_type
    validate_before_deploy, \* args.validate_before_deploy
    notebook_files,         \* the *.ipynb files under notebooks/, each with its stem
                            \* and whether json.load reads it
    workspace,              \* display names of the notebooks in the Fabric workspace
    deploy_pc,              \* where main is: "main", "validate", "notebooks",
                            \* "pipelines", "report" or "exited"
    workspace_valid,        \* <<what validate_workspace returned>>; <<>> before
    attempted,              \* deploy_notebooks: the stems passed to _deploy_notebook,
                            \* each with what it returned
    sent,                   \* the create and update requests of this run, each with
                            \* whether the workspace held the name when it was sent
    steps,                  \* the deploy steps that returned, each with its result
    deploy_exit             \* <<status>> the process exited with; <<>> while it runs

deploy_vars == <<artifact_type, validate_before_deploy, notebook_files, workspace,
                 deploy_pc, workspace_valid, attempted, sent, steps, deploy_exit>>

\* The script is not running.
DeployIdle ==
    /\ artifact_type = "all"
    /\ validate_before_deploy = FALSE
    /\ notebook_files = {}
    /\ workspace = {}
    /\ deploy_pc = "main"
    /\ workspace_valid = <<>>
    /\ attempted = {}
    /\ sent = {}
    /\ steps = {}
    /\ deploy_exit = <<>>

\* scripts/validate_notebooks.py and scripts/validate_pipelines.py
VARIABLES
    validator,              \* the class instantiated: "NotebookValidator" or
                            \* "PipelineValidator"
    directory,              \* self.notebooks_path / self.pipelines_path: whether it
                            \* exists, and the files in it that match the glob
    errors,                 \* self.errors
    warnings,               \* self.warnings
    errors_before,          \* <<len(self.errors) when the last call started>>
    returned                \* what the calls of validate_all returned, in order

validators_vars == <<validator, directory, errors, warnings, errors_before, returned>>

\* No validator is running.
ValidatorsIdle ==
    /\ validator = "NotebookValidator"
    /\ directory = [exists |-> FALSE, files |-> <<>>]
    /\ errors = <<>>
    /\ warnings = <<>>
    /\ errors_before = <<>>
    /\ returned = <<>>

\* What the actions of the detector leave alone.
beyond_detector == <<pipeline_vars, validation_vars, deploy_vars, validators_vars>>
\* What the actions of the pipeline trigger leave alone.
beyond_pipeline == <<detector_vars, validation_vars, deploy_vars, validators_vars>>
\* What the actions of the deployment validation leave alone.
beyond_validation == <<detector_vars, pipeline_vars, deploy_vars, validators_vars>>
\* What the actions of the deployer leave alone.
beyond_deploy == <<detector_vars, pipeline_vars, validation_vars, validators_vars>>
\* What the actions of the validators leave alone.
beyond_validators == <<detector_vars, pipeline_vars, validation_vars, deploy_vars>>

vars == <<detector_vars, pipeline_vars, validation_vars, deploy_vars, validators_vars>>

-----------------------------------------------------------------------------
(* Bounds and input domains                                                *)

\* Column entries in the two snapshots handed to detect_changes, together.
MaxCols == 2

TableNames == {"customers", "orders"}
ColumnNames == {"id", "email"}
TypeNames == {"int", "INT", "integer"}

-----------------------------------------------------------------------------
(* Python helpers                                                          *)

EmptyDict == [k \in {} |-> k]

\* d.get(k, default)
Get(d, k, default) == IF k \in DOMAIN d THEN d[k] ELSE default

\* All orders in which the elements of a finite set can be listed.
Perms(S) ==
    {p \in [1..Cardinality(S) -> S] : \A x \in S : \E i \in DOMAIN p : p[i] = x}

\* Iteration over the keys of dict d, whose insertion order is `order`.
Keys(d, order) == SelectSeq(order, LAMBDA k : k \in DOMAIN d)

RECURSIVE Flatten(_)
Flatten(ss) == IF ss = <<>> THEN <<>> ELSE Head(ss) \o Flatten(Tail(ss))

-----------------------------------------------------------------------------
(* Python str: a string is the sequence of its characters                  *)

\* s.find(sub, i - 1) + 1: the first index from i on at which sub occurs in s, or 0
RECURSIVE FindFrom(_, _, _)
FindFrom(s, sub, i) ==
    IF i + Len(sub) - 1 > Len(s) THEN 0
    ELSE IF \A j \in 1..Len(sub) : s[i + j - 1] = sub[j] THEN i
    ELSE FindFrom(s, sub, i + 1)

Find(s, sub) == FindFrom(s, sub, 1)

\* sub in s
Contains(s, sub) == Find(s, sub) # 0

\* s.split(sep)
RECURSIVE Split(_, _)
Split(s, sep) ==
    LET i == Find(s, sep)
    IN  IF i = 0 THEN <<s>>
        ELSE <<SubSeq(s, 1, i - 1)>> \o Split(SubSeq(s, i + Len(sep), Len(s)), sep)

\* sep.join(parts)
RECURSIVE Join(_, _)
Join(parts, sep) ==
    IF parts = <<>> THEN <<>>
    ELSE IF Len(parts) = 1 THEN parts[1]
    ELSE parts[1] \o sep \o Join(Tail(parts), sep)

Whitespace == {" ", "\t", "\n", "\r", "\f"}

\* s.strip()
RECURSIVE LStrip(_)
LStrip(s) == IF s # <<>> /\ Head(s) \in Whitespace THEN LStrip(Tail(s)) ELSE s

RECURSIVE RStrip(_)
RStrip(s) ==
    IF s # <<>> /\ s[Len(s)] \in Whitespace THEN RStrip(SubSeq(s, 1, Len(s) - 1)) ELSE s

Strip(s) == RStrip(LStrip(s))

UpperCase == <<"A", "B", "C", "D", "E", "F", "G", "H", "I", "J", "K", "L", "M",
               "N", "O", "P", "Q", "R", "S", "T", "U", "V", "W", "X", "Y", "Z">>
LowerCase == <<"a", "b", "c", "d", "e", "f", "g", "h", "i", "j", "k", "l", "m",
               "n", "o", "p", "q", "r", "s", "t", "u", "v", "w", "x", "y", "z">>

LowerChar(c) ==
    IF \E i \in DOMAIN UpperCase : UpperCase[i] = c
    THEN LowerCase[CHOOSE i \in DOMAIN UpperCase : UpperCase[i] = c]
    ELSE c

\* s.lower()
RECURSIVE Lower(_)
Lower(s) == IF s = <<>> THEN <<>> ELSE <<LowerChar(Head(s))>> \o Lower(Tail(s))

\* d[k] = v
Put(d, k, v) == [x \in (DOMAIN d) \cup {k} |-> IF x = k THEN v ELSE d[x]]

-----------------------------------------------------------------------------
(* SchemaChangeDetector                                                    *)

BREAKING_CHANGES ==
    {"column_removed", "column_renamed", "data_type_changed", "column_made_nullable"}

SAFE_CHANGES == {"column_added", "column_made_non_nullable"}

column_removed(table_name, col_name) ==
    [type |-> "column_removed", severity |-> "BREAKING",
     table |-> table_name, column |-> col_name,
     message |-> <<"Column '", col_name, "' was removed from table '", table_name, "'">>]

column_added(table_name, col_name) ==
    [type |-> "column_added", severity |-> "SAFE",
     table |-> table_name, column |-> col_name,
     message |-> <<"Column '", col_name, "' was added to table '", table_name, "'">>]

data_type_changed(table_name, col_name, old_type, new_type) ==
    [type |-> "data_type_changed", severity |-> "BREAKING",
     table |-> table_name, column |-> col_name,
     message |-> <<"Column '", col_name, "' type changed from ", old_type, " to ", new_type>>]

\* Mutant: a column made nullable is classified as safe.
column_made_nullable_safe(table_name, col_name) ==
    [type |-> "column_made_nullable", severity |-> "SAFE",
     table |-> table_name, column |-> col_name,
     message |-> <<"Column '", col_name, "' changed from non-nullable to nullable">>]

column_made_nullable(table_name, col_name) ==
    [type |-> "column_made_nullable", severity |-> "BREAKING",
     table |-> table_name, column |-> col_name,
     message |-> <<"Column '", col_name, "' changed from non-nullable to nullable">>]

column_made_non_nullable(table_name, col_name) ==
    [type |-> "column_made_non_nullable", severity |-> "SAFE",
     table |-> table_name, column |-> col_name,
     message |-> <<"Column '", col_name, "' changed from nullable to non-nullable">>]

\* Mutant: the two key lists are concatenated but not made a set.
table_names_list(old, new, hash_order) ==
    SelectSeq(hash_order, LAMBDA t : t \in DOMAIN old)
    \o SelectSeq(hash_order, LAMBDA t : t \in DOMAIN new)

\* for table_name in set(list(old_schema.keys()) + list(new_schema.keys())):
\* the set is iterated in hash order.
table_names(old, new, hash_order) ==
    SelectSeq(hash_order, LAMBDA t : t \in (DOMAIN old) \cup (DOMAIN new))

\* old_schema.get(table_name, {}).get("columns", {})
columns_of(schema, table_name) == Get(Get(schema, table_name, EmptyDict), "columns", EmptyDict)

\* Mutant: the membership test of the removed-columns loop is inverted.
removed_columns_inverted(old_cols, new_cols, table_name, old_order) ==
    LET olds == Keys(old_cols, old_order)
    IN  Flatten([i \in DOMAIN olds |->
            IF olds[i] \in DOMAIN new_cols
            THEN <<column_removed(table_name, olds[i])>>
            ELSE <<>>])

\* Detect removed columns
removed_columns(old_cols, new_cols, table_name, old_order) ==
    LET olds == Keys(old_cols, old_order)
    IN  Flatten([i \in DOMAIN olds |->
            IF olds[i] \notin DOMAIN new_cols
            THEN <<column_removed(table_name, olds[i])>>
            ELSE <<>>])

\* Mutant: columns of a table the old snapshot lacks are not reported.
added_columns_known_tables(old_cols, new_cols, table_name, new_order) ==
    LET news == Keys(new_cols, new_order)
    IN  Flatten([i \in DOMAIN news |->
            IF news[i] \notin DOMAIN old_cols /\ DOMAIN old_cols # {}
            THEN <<column_added(table_name, news[i])>>
            ELSE <<>>])

\* Detect added columns
added_columns(old_cols, new_cols, table_name, new_order) ==
    LET news == Keys(new_cols, new_order)
    IN  Flatten([i \in DOMAIN news |->
            IF news[i] \notin DOMAIN old_cols
            THEN <<column_added(table_name, news[i])>>
            ELSE <<>>])

\* Mutant: type names are unified (case folded, integer read as int) before
\* they are compared.
UnifiedType(type) == IF type \in {"INT", "integer"} THEN "int" ELSE type

types_differ_unified(old_type, new_type) == UnifiedType(old_type) # UnifiedType(new_type)

\* if old_type != new_type
types_differ(old_type, new_type) == old_type # new_type

type_change(old_col, new_col, table_name, col_name) ==
    LET old_type == old_col["type"]
        new_type == new_col["type"]
    IN  IF types_differ(old_type, new_type)
        THEN <<data_type_changed(table_name, col_name, old_type, new_type)>>
        ELSE <<>>

\* Mutant: a missing nullable key counts as nullable.
nullable_change_default_true(old_col, new_col, table_name, col_name) ==
    LET old_nullable == Get(old_col, "nullable", TRUE)
        new_nullable == Get(new_col, "nullable", TRUE)
    IN  IF old_nullable # new_nullable
        THEN IF new_nullable /\ ~old_nullable
             THEN <<column_made_nullable(table_name, col_name)>>
             ELSE <<column_made_non_nullable(table_name, col_name)>>
        ELSE <<>>

\* Mutant: the two snapshots read a missing nullable key differently.
nullable_change_uneven_default(old_col, new_col, table_name, col_name) ==
    LET old_nullable == Get(old_col, "nullable", FALSE)
        new_nullable == Get(new_col, "nullable", TRUE)
    IN  IF old_nullable # new_nullable
        THEN IF new_nullable /\ ~old_nullable
             THEN <<column_made_nullable(table_name, col_name)>>
             ELSE <<column_made_non_nullable(table_name, col_name)>>
        ELSE <<>>

\* Detect nullable changes
nullable_change(old_col, new_col, table_name, col_name) ==
    LET old_nullable == Get(old_col, "nullable", FALSE)
        new_nullable == Get(new_col, "nullable", FALSE)
    IN  IF old_nullable # new_nullable
        THEN IF new_nullable /\ ~old_nullable
             THEN <<column_made_nullable(table_name, col_name)>>
             ELSE <<column_made_non_nullable(table_name, col_name)>>
        ELSE <<>>

\* Detect type changes (and, in the same loop, nullable changes)
changed_columns(old_cols, new_cols, table_name, old_order) ==
    LET olds == Keys(old_cols, old_order)
    IN  Flatten([i \in DOMAIN olds |->
            IF olds[i] \in DOMAIN new_cols
            THEN type_change(old_cols[olds[i]], new_cols[olds[i]], table_name, olds[i])
                 \o nullable_change(old_cols[olds[i]], new_cols[olds[i]], table_name, olds[i])
            ELSE <<>>])

\* Mutant: one removed and one added column of equal type and nullability are
\* reported as a rename.
table_changes_with_rename(old, new, table_name, old_order, new_order) ==
    LET old_cols == columns_of(old, table_name)
        new_cols == columns_of(new, table_name)
        removed == removed_columns(old_cols, new_cols, table_name, old_order)
        added == added_columns(old_cols, new_cols, table_name, new_order)
        renamed == /\ Len(removed) = 1
                   /\ Len(added) = 1
                   /\ old_cols[removed[1].column]["type"] = new_cols[added[1].column]["type"]
                   /\ Get(old_cols[removed[1].column], "nullable", FALSE)
                        = Get(new_cols[added[1].column], "nullable", FALSE)
    IN  (IF renamed
         THEN <<[type |-> "column_renamed", severity |-> "BREAKING",
                 table |-> table_name, column |-> removed[1].column,
                 message |-> <<"Column '", removed[1].column, "' was renamed to '",
                               added[1].column, "'">>]>>
         ELSE removed \o added)
        \o changed_columns(old_cols, new_cols, table_name, old_order)

table_changes(old, new, table_name, old_order, new_order) ==
    LET old_cols == columns_of(old, table_name)
        new_cols == columns_of(new, table_name)
    IN  removed_columns(old_cols, new_cols, table_name, old_order)
        \o added_columns(old_cols, new_cols, table_name, new_order)
        \o changed_columns(old_cols, new_cols, table_name, old_order)

detect_changes(old, new, hash_order, old_order, new_order) ==
    LET tables == table_names(old, new, hash_order)
    IN  Flatten([i \in DOMAIN tables |->
            table_changes(old, new, tables[i], old_order, new_order)])

-----------------------------------------------------------------------------
(* SchemaChangeDetector.extract_schema_from_notebook                       *)

SCHEMA_MARKER == <<"#", " ", "S", "C", "H", "E", "M", "A", ":">>
COLUMNS_MARKER == <<"#", " ", "C", "O", "L", "U", "M", "N", "S", ":">>
NULLABLE == <<"n", "u", "l", "l", "a", "b", "l", "e">>

\* current_table is <<>> for None and <<name>> for a table name;
\* `and current_table` is false for None and for the empty string.
Truthy(current_table) == current_table # <<>> /\ current_table[1] # <<>>

\* Mutant: a fragment without parentheses is recorded as a column of unknown
\* type.
parse_col_def_lenient(columns, fragment) ==
    LET col_def == Strip(fragment)
    IN  IF Contains(col_def, <<"(">>) /\ Contains(col_def, <<")">>)
        THEN LET col_name == Strip(Split(col_def, <<"(">>)[1])
                 col_type == Strip(Split(Split(col_def, <<"(">>)[2], <<")">>)[1])
                 nullable == Contains(Lower(col_def), NULLABLE)
             IN  Put(columns, col_name, [type |-> col_type, nullable |-> nullable])
        ELSE Put(columns, col_def, [type |-> <<>>, nullable |-> FALSE])

\* Mutant: the nullable key is written only for nullable columns.
parse_col_def_sparse(columns, fragment) ==
    LET col_def == Strip(fragment)
    IN  IF Contains(col_def, <<"(">>) /\ Contains(col_def, <<")">>)
        THEN LET col_name == Strip(Split(col_def, <<"(">>)[1])
                 col_type == Strip(Split(Split(col_def, <<"(">>)[2], <<")">>)[1])
                 nullable == Contains(Lower(col_def), NULLABLE)
             IN  Put(columns, col_name,
                     IF nullable THEN [type |-> col_type, nullable |-> TRUE]
                     ELSE [type |-> col_type])
        ELSE columns

\* One comma-separated fragment of a COLUMNS line, added to the columns of a table.
parse_col_def(columns, fragment) ==
    LET col_def == Strip(fragment)
    IN  IF Contains(col_def, <<"(">>) /\ Contains(col_def, <<")">>)
        THEN LET col_name == Strip(Split(col_def, <<"(">>)[1])
                 col_type == Strip(Split(Split(col_def, <<"(">>)[2], <<")">>)[1])
                 nullable == Contains(Lower(col_def), NULLABLE)
             IN  Put(columns, col_name, [type |-> col_type, nullable |-> nullable])
        ELSE columns

RECURSIVE parse_col_defs(_, _)
parse_col_defs(columns, fragments) ==
    IF fragments = <<>> THEN columns
    ELSE parse_col_defs(parse_col_def(columns, Head(fragments)), Tail(fragments))

\* Mutant: a SCHEMA marker for a table already seen keeps the columns of the
\* earlier block.
extract_line_merging(acc, line) ==
    IF Contains(line, SCHEMA_MARKER)
    THEN LET current_table == Strip(Split(line, SCHEMA_MARKER)[2])
         IN  [schemas |-> IF current_table \in DOMAIN acc.schemas THEN acc.schemas
                          ELSE Put(acc.schemas, current_table, [columns |-> EmptyDict]),
              current_table |-> <<current_table>>]
    ELSE IF Contains(line, COLUMNS_MARKER) /\ Truthy(acc.current_table)
    THEN LET columns_def == Strip(Split(line, COLUMNS_MARKER)[2])
             table == acc.current_table[1]
             columns == parse_col_defs(acc.schemas[table]["columns"],
                                       Split(columns_def, <<",">>))
         IN  [schemas |-> Put(acc.schemas, table, [columns |-> columns]),
              current_table |-> acc.current_table]
    ELSE acc

\* The body of the loop over the lines; acc holds schemas and current_table.
extract_line(acc, line) ==
    IF Contains(line, SCHEMA_MARKER)
    THEN LET current_table == Strip(Split(line, SCHEMA_MARKER)[2])
         IN  [schemas |-> Put(acc.schemas, current_table, [columns |-> EmptyDict]),
              current_table |-> <<current_table>>]
    ELSE IF Contains(line, COLUMNS_MARKER) /\ Truthy(acc.current_table)
    THEN LET columns_def == Strip(Split(line, COLUMNS_MARKER)[2])
             table == acc.current_table[1]
             columns == parse_col_defs(acc.schemas[table]["columns"],
                                       Split(columns_def, <<",">>))
         IN  [schemas |-> Put(acc.schemas, table, [columns |-> columns]),
              current_table |-> acc.current_table]
    ELSE acc

RECURSIVE extract_lines(_, _)
extract_lines(acc, lines) ==
    IF lines = <<>> THEN acc
    ELSE extract_lines(extract_line(acc, Head(lines)), Tail(lines))

\* content is the text of the notebook file
extract_schema(content) ==
    extract_lines([schemas |-> EmptyDict, current_table |-> <<>>],
                  Split(content, <<"\n">>)).schemas

\* f.read() of the notebook file
read_notebook(lines) == Join(lines, <<"\n">>)

extract_schema_from_notebook(lines) == extract_schema(read_notebook(lines))

-----------------------------------------------------------------------------
(* output_schema.json: "absent", "malformed", or a JSON document.  A JSON  *)
(* object is a function of its keys, a JSON string the sequence of its     *)
(* characters, and the JSON literals true and false the tokens "true" and  *)
(* "false".                                                                *)

ABSENT == [state |-> "absent"]
MALFORMED == [state |-> "malformed"]
Document(json) == [state |-> "document", json |-> json]

json_bool(b) == IF b THEN "true" ELSE "false"

\* Mutant: only the type of a column is written to the baseline.
json_dump_types_only(schema) ==
    [t \in DOMAIN schema |->
        [k \in DOMAIN schema[t] |->
            [c \in DOMAIN schema[t][k] |->
                [f \in {"type"} |-> schema[t][k][c][f]]]]]

\* json.dump of a snapshot
json_dump(schema) ==
    [t \in DOMAIN schema |->
        [k \in DOMAIN schema[t] |->
            [c \in DOMAIN schema[t][k] |->
                [f \in DOMAIN schema[t][k][c] |->
                    IF f = "nullable" THEN json_bool(schema[t][k][c][f])
                    ELSE schema[t][k][c][f]]]]]

\* json.load of a baseline document
json_load(json) ==
    [t \in DOMAIN json |->
        [k \in DOMAIN json[t] |->
            [c \in DOMAIN json[t][k] |->
                [f \in DOMAIN json[t][k][c] |->
                    IF f = "nullable" THEN json[t][k][c][f] = "true"
                    ELSE json[t][k][c][f]]]]]

\* load_previous_schema; raises on malformed JSON
load_raises(file) == file = MALFORMED

load_previous_schema(file) ==
    IF file = ABSENT THEN EmptyDict ELSE json_load(file.json)

save_current_schema(schema) == Document(json_dump(schema))

-----------------------------------------------------------------------------
(* Snapshots handed to detect_changes                                      *)

\* {"type": t, "nullable": b}, or {"type": t} in a hand-written baseline
ColSpecs ==
    {[type |-> t, nullable |-> b] : t \in TypeNames, b \in BOOLEAN}
    \cup {[type |-> t] : t \in TypeNames}

ColDicts == UNION {[S -> ColSpecs] : S \in SUBSET ColumnNames}

\* {"columns": {...}}
TableEntries == {[columns |-> cd] : cd \in ColDicts}

Snapshots == UNION {[S -> TableEntries] : S \in SUBSET TableNames}

RECURSIVE SumOver(_, _)
SumOver(f, S) ==
    IF S = {} THEN 0
    ELSE LET x == CHOOSE y \in S : TRUE IN f[x] + SumOver(f, S \ {x})

NumCols(schema) ==
    SumOver([t \in DOMAIN schema |-> Cardinality(DOMAIN columns_of(schema, t))],
            DOMAIN schema)

SizedSnapshots == {<<NumCols(s), s>> : s \in {x \in Snapshots : NumCols(x) <= MaxCols}}

\* Every column name that occurs in a snapshot.
ColumnsIn(schema) == UNION {DOMAIN columns_of(schema, t) : t \in DOMAIN schema}

-----------------------------------------------------------------------------
(* Specification of detect_changes as a function of two snapshots          *)

InitDiff ==
    /\ \E p \in SizedSnapshots, q \in SizedSnapshots :
          /\ p[1] + q[1] <= MaxCols
          /\ old_schema = p[2]
          /\ new_schema = q[2]
    /\ changes = <<>>
    /\ called = FALSE
    /\ notebook = <<>>
    /\ schema_file = [state |-> "absent"]
    /\ file_before = [state |-> "absent"]
    /\ fail_on_breaking = FALSE
    /\ pc = "ready"
    /\ has_breaking_changes = FALSE
    /\ all_changes = <<>>
    /\ exit_code = 0
    /\ previous_exit = <<>>
    /\ source = <<>>
    /\ schemas = EmptyDict
    /\ extract_done = FALSE
    /\ earlier = <<>>
    /\ PipelineIdle
    /\ ValidationIdle
    /\ DeployIdle
    /\ ValidatorsIdle

DetectChanges ==
    /\ ~called
    /\ \E hash_order \in Perms((DOMAIN old_schema) \cup (DOMAIN new_schema)),
          old_order \in Perms(ColumnsIn(old_schema)),
          new_order \in Perms(ColumnsIn(new_schema)) :
          changes' = detect_changes(old_schema, new_schema, hash_order, old_order, new_order)
    /\ called' = TRUE
    /\ UNCHANGED <<old_schema, new_schema, run_vars, extract_vars, beyond_detector>>

NextDiff == DetectChanges

SpecDiff == InitDiff /\ [][NextDiff]_vars

-----------------------------------------------------------------------------
(* Notebooks and baselines the detector is run on                          *)

\* Lines of a notebook file.
MaxLines == 2

\* # SCHEMA: cust
LINE_SCHEMA_CUST ==
    <<"#", " ", "S", "C", "H", "E", "M", "A", ":", " ", "c", "u", "s", "t">>

\* # SCHEMA: ord
LINE_SCHEMA_ORD ==
    <<"#", " ", "S", "C", "H", "E", "M", "A", ":", " ", "o", "r", "d">>

\* # COLUMNS: id (int), amt (str)
LINE_COLS_ID_AMT ==
    <<"#", " ", "C", "O", "L", "U", "M", "N", "S", ":", " ", "i", "d", " ", "(", "i", "n", "t", ")", ",", " ", "a", "m", "t", " ", "(", "s", "t", "r", ")">>

\* # COLUMNS: id (INT)
LINE_COLS_ID_UPPER ==
    <<"#", " ", "C", "O", "L", "U", "M", "N", "S", ":", " ", "i", "d", " ", "(", "I", "N", "T", ")">>

\* # COLUMNS: id (int, nullable)
LINE_COLS_ID_NULLABLE ==
    <<"#", " ", "C", "O", "L", "U", "M", "N", "S", ":", " ", "i", "d", " ", "(", "i", "n", "t", ",", " ", "n", "u", "l", "l", "a", "b", "l", "e", ")">>

\* # COLUMNS: id (nullable int)
LINE_COLS_ID_NULLABLE_INT ==
    <<"#", " ", "C", "O", "L", "U", "M", "N", "S", ":", " ", "i", "d", " ", "(", "n", "u", "l", "l", "a", "b", "l", "e", " ", "i", "n", "t", ")">>

\* df = load()
LINE_CODE ==
    <<"d", "f", " ", "=", " ", "l", "o", "a", "d", "(", ")">>

NotebookLines ==
    {LINE_SCHEMA_CUST,
     LINE_SCHEMA_ORD,
     LINE_COLS_ID_AMT,
     LINE_COLS_ID_UPPER,
     LINE_COLS_ID_NULLABLE,
     LINE_COLS_ID_NULLABLE_INT,
     LINE_CODE}

NameCust == <<"c", "u", "s", "t">>
NameOrd == <<"o", "r", "d">>
NameId == <<"i", "d">>
NameAmt == <<"a", "m", "t">>
TypeInt == <<"i", "n", "t">>
TypeStr == <<"s", "t", "r">>

\* One table with one column, as a JSON document.
OneColumn(table, column, spec) == [t \in {table} |-> [columns |-> [c \in {column} |-> spec]]]

\* Baseline files found beside the notebook before the first run: none, one
\* that is not JSON, an empty object, and hand-written documents (a nullable
\* column, a column without the nullable key, a table without columns).
InitialBaselines ==
    {ABSENT, MALFORMED, Document(EmptyDict),
     Document(OneColumn(NameCust, NameId, [type |-> TypeInt, nullable |-> "true"])),
     Document(OneColumn(NameCust, NameId, [type |-> TypeInt])),
     Document(OneColumn(NameOrd, NameAmt, [type |-> TypeStr, nullable |-> "false"])),
     Document([t \in {NameCust} |-> EmptyDict])}

Notebooks == UNION {[1..n -> NotebookLines] : n \in 0..MaxLines}

\* extract_schema_from_notebook, tabulated once over the notebooks above
ExtractedSchemas == {<<lines, extract_schema_from_notebook(lines)>> : lines \in Notebooks}

extracted(lines) == (CHOOSE p \in ExtractedSchemas : p[1] = lines)[2]


-----------------------------------------------------------------------------
(* SchemaChangeDetector.run and main                                       *)

\* Mutant: every change counts as breaking.
BreakingOf_any(cs) == cs

\* breaking_changes = [c for c in changes if c["severity"] == "BREAKING"]
BreakingOf(cs) == SelectSeq(cs, LAMBDA c : c.severity = "BREAKING")

\* Mutant: the current snapshot is saved before the no-changes return.
run_always_saves(lines, file, hash_order, old_order, new_order) ==
    LET current_schema == extracted(lines)
    IN  IF current_schema = EmptyDict
        THEN [raised |-> FALSE, result |-> <<FALSE, <<>>>>, file |-> file]
        ELSE IF load_raises(file)
        THEN [raised |-> TRUE, result |-> <<FALSE, <<>>>>, file |-> file]
        ELSE LET previous_schema == load_previous_schema(file)
             IN  IF previous_schema = EmptyDict
                 THEN [raised |-> FALSE, result |-> <<FALSE, <<>>>>,
                       file |-> save_current_schema(current_schema)]
                 ELSE LET cs == detect_changes(previous_schema, current_schema,
                                               hash_order, old_order, new_order)
                      IN  [raised |-> FALSE,
                           result |-> <<Len(BreakingOf(cs)) > 0, cs>>,
                           file |-> save_current_schema(current_schema)]

\* Mutant: a notebook without schema definitions is compared like any other.
run_without_skip(lines, file, hash_order, old_order, new_order) ==
    LET current_schema == extracted(lines)
    IN  IF load_raises(file)
        THEN [raised |-> TRUE, result |-> <<FALSE, <<>>>>, file |-> file]
        ELSE LET previous_schema == load_previous_schema(file)
             IN  IF previous_schema = EmptyDict
                 THEN [raised |-> FALSE, result |-> <<FALSE, <<>>>>,
                       file |-> save_current_schema(current_schema)]
                 ELSE LET cs == detect_changes(previous_schema, current_schema,
                                               hash_order, old_order, new_order)
                      IN  IF cs = <<>>
                          THEN [raised |-> FALSE, result |-> <<FALSE, <<>>>>, file |-> file]
                          ELSE [raised |-> FALSE,
                                result |-> <<Len(BreakingOf(cs)) > 0, cs>>,
                                file |-> save_current_schema(current_schema)]

\* Mutant: a baseline that is not JSON is taken for an empty one.
run_swallowing_parse_error(lines, file, hash_order, old_order, new_order) ==
    LET current_schema == extracted(lines)
    IN  IF current_schema = EmptyDict
        THEN [raised |-> FALSE, result |-> <<FALSE, <<>>>>, file |-> file]
        ELSE LET previous_schema == IF load_raises(file) THEN EmptyDict
                                    ELSE load_previous_schema(file)
             IN  IF previous_schema = EmptyDict
                 THEN [raised |-> FALSE, result |-> <<FALSE, <<>>>>,
                       file |-> save_current_schema(current_schema)]
                 ELSE LET cs == detect_changes(previous_schema, current_schema,
                                               hash_order, old_order, new_order)
                      IN  IF cs = <<>>
                          THEN [raised |-> FALSE, result |-> <<FALSE, <<>>>>, file |-> file]
                          ELSE [raised |-> FALSE,
                                result |-> <<Len(BreakingOf(cs)) > 0, cs>>,
                                file |-> save_current_schema(current_schema)]

\* Mutant: the baseline is saved after the pass/fail decision, only when no
\* change is breaking.
run_saves_after_decision(lines, file, hash_order, old_order, new_order) ==
    LET current_schema == extracted(lines)
    IN  IF current_schema = EmptyDict
        THEN [raised |-> FALSE, result |-> <<FALSE, <<>>>>, file |-> file]
        ELSE IF load_raises(file)
        THEN [raised |-> TRUE, result |-> <<FALSE, <<>>>>, file |-> file]
        ELSE LET previous_schema == load_previous_schema(file)
             IN  IF previous_schema = EmptyDict
                 THEN [raised |-> FALSE, result |-> <<FALSE, <<>>>>,
                       file |-> save_current_schema(current_schema)]
                 ELSE LET cs == detect_changes(previous_schema, current_schema,
                                               hash_order, old_order, new_order)
                      IN  IF cs = <<>>
                          THEN [raised |-> FALSE, result |-> <<FALSE, <<>>>>, file |-> file]
                          ELSE [raised |-> FALSE,
                                result |-> <<Len(BreakingOf(cs)) > 0, cs>>,
                                file |-> IF Len(BreakingOf(cs)) > 0 THEN file
                                         ELSE save_current_schema(current_schema)]

\* run(): the returned pair, the baseline file it leaves, and whether it raised
run(lines, file, hash_order, old_order, new_order) ==
    LET current_schema == extracted(lines)
    IN  IF current_schema = EmptyDict
        THEN [raised |-> FALSE, result |-> <<FALSE, <<>>>>, file |-> file]
        ELSE IF load_raises(file)
        THEN [raised |-> TRUE, result |-> <<FALSE, <<>>>>, file |-> file]
        ELSE LET previous_schema == load_previous_schema(file)
             IN  IF previous_schema = EmptyDict
                 THEN [raised |-> FALSE, result |-> <<FALSE, <<>>>>,
                       file |-> save_current_schema(current_schema)]
                 ELSE LET cs == detect_changes(previous_schema, current_schema,
                                               hash_order, old_order, new_order)
                      IN  IF cs = <<>>
                          THEN [raised |-> FALSE, result |-> <<FALSE, <<>>>>, file |-> file]
                          ELSE [raised |-> FALSE,
                                result |-> <<Len(BreakingOf(cs)) > 0, cs>>,
                                file |-> save_current_schema(current_schema)]

\* Mutant: the exit status ignores --fail-on-breaking.
exit_status_unconditional(breaking, flag) == IF breaking THEN 1 ELSE 0

\* sys.exit status of main after run() returned
exit_status(breaking, flag) == IF breaking /\ flag THEN 1 ELSE 0

-----------------------------------------------------------------------------
(* Specification of the command-line entry point                           *)

\* The snapshot a baseline file holds; none when it cannot be loaded.
Baseline(file) == IF load_raises(file) THEN EmptyDict ELSE load_previous_schema(file)

Init ==
    /\ notebook = <<>>
    /\ schema_file \in InitialBaselines
    /\ file_before = schema_file
    /\ fail_on_breaking = FALSE
    /\ pc = "ready"
    /\ has_breaking_changes = FALSE
    /\ all_changes = <<>>
    /\ exit_code = 0
    /\ previous_exit = <<>>
    /\ old_schema = EmptyDict
    /\ new_schema = EmptyDict
    /\ changes = <<>>
    /\ called = FALSE
    /\ source = <<>>
    /\ schemas = EmptyDict
    /\ extract_done = FALSE
    /\ earlier = <<>>
    /\ PipelineIdle
    /\ ValidationIdle
    /\ DeployIdle
    /\ ValidatorsIdle

\* A commit appends a line to the notebook.
AppendLine ==
    /\ pc = "ready"
    /\ Len(notebook) < MaxLines
    /\ \E line \in NotebookLines : notebook' = Append(notebook, line)
    /\ previous_exit' = <<>>
    /\ UNCHANGED <<schema_file, file_before, fail_on_breaking, pc,
                   has_breaking_changes, all_changes, exit_code, diff_vars, extract_vars,
                   beyond_detector>>

\* A commit deletes the last line of the notebook.
DeleteLine ==
    /\ pc = "ready"
    /\ notebook # <<>>
    /\ notebook' = SubSeq(notebook, 1, Len(notebook) - 1)
    /\ previous_exit' = <<>>
    /\ UNCHANGED <<schema_file, file_before, fail_on_breaking, pc,
                   has_breaking_changes, all_changes, exit_code, diff_vars, extract_vars,
                   beyond_detector>>

\* python detect_schema_changes.py --notebook ... [--fail-on-breaking]
Main ==
    /\ pc = "ready"
    /\ LET previous == Baseline(schema_file)
           current == extracted(notebook)
       IN  \E hash_order \in Perms((DOMAIN previous) \cup (DOMAIN current)),
              old_order \in Perms(ColumnsIn(previous)),
              new_order \in Perms(ColumnsIn(current)) :
          LET r == run(notebook, schema_file, hash_order, old_order, new_order)
          IN  \E flag \in BOOLEAN :
              /\ fail_on_breaking' = flag
              /\ schema_file' = r.file
              /\ file_before' = schema_file
              /\ IF r.raised
                 THEN /\ pc' = "aborted"
                      /\ exit_code' = 1
                      /\ has_breaking_changes' = FALSE
                      /\ all_changes' = <<>>
                 ELSE /\ pc' = "exited"
                      /\ has_breaking_changes' = r.result[1]
                      /\ all_changes' = r.result[2]
                      /\ exit_code' = exit_status(r.result[1], flag)
    /\ UNCHANGED <<notebook, previous_exit, diff_vars, extract_vars, beyond_detector>>

\* The next CI job starts.
NextJob ==
    /\ pc \in {"exited", "aborted"}
    /\ pc' = "ready"
    /\ has_breaking_changes' = FALSE
    /\ all_changes' = <<>>
    /\ exit_code' = 0
    /\ file_before' = schema_file
    /\ fail_on_breaking' = FALSE
    /\ previous_exit' = IF pc = "exited" THEN <<exit_code>> ELSE <<>>
    /\ UNCHANGED <<notebook, schema_file, diff_vars, extract_vars, beyond_detector>>

Next == AppendLine \/ DeleteLine \/ Main \/ NextJob

Spec == Init /\ [][Next]_vars

-----------------------------------------------------------------------------
(* Specification of extract_schema_from_notebook alone.  A notebook is     *)
(* written out from a list of items: a schema marker with a table name, a  *)
(* columns marker with column declarations, or a line of code.             *)

\* Lines of a notebook handed to the extraction.
MaxItems == 4

SchemaItem(table) == [kind |-> "schema", table |-> table]
ColumnsItem(decls) == [kind |-> "columns", decls |-> decls]
CodeItem == [kind |-> "code"]

\* name (type)
Typed(name, type) == [form |-> "typed", name |-> name, type |-> type]
\* name (type, nullable)
Nullable(name, type) == [form |-> "nullable", name |-> name, type |-> type]
\* name type
Bare(name, type) == [form |-> "bare", name |-> name, type |-> type]
\* name (type
Unclosed(name, type) == [form |-> "unclosed", name |-> name, type |-> type]
\* name (type nullable)
Flagged(name, type) == [form |-> "flagged", name |-> name, type |-> type]

\* The text of a column declaration.
render_decl(d) ==
    CASE d.form = "typed" -> d.name \o <<" ", "(">> \o d.type \o <<")">>
      [] d.form = "nullable" ->
            d.name \o <<" ", "(">> \o d.type \o <<",", " ">> \o NULLABLE \o <<")">>
      [] d.form = "bare" -> d.name \o <<" ">> \o d.type
      [] d.form = "unclosed" -> d.name \o <<" ", "(">> \o d.type
      [] d.form = "flagged" ->
            d.name \o <<" ", "(">> \o d.type \o <<" ">> \o NULLABLE \o <<")">>

\* The line of the notebook an item is written as.
render_item(item) ==
    CASE item.kind = "schema" -> SCHEMA_MARKER \o <<" ">> \o item.table
      [] item.kind = "columns" ->
            COLUMNS_MARKER \o <<" ">>
            \o Join([j \in DOMAIN item.decls |-> render_decl(item.decls[j])], <<",", " ">>)
      [] item.kind = "code" -> LINE_CODE

render(items) == [i \in DOMAIN items |-> render_item(items[i])]

\* # SCHEMA: cust, # SCHEMA: ord, a marker without a table name,
\* # COLUMNS: id (int), amt (str)
\* # COLUMNS: id (str, nullable), amt (int nullable)
\* # COLUMNS: amt str, id (str), amt (int
\* and a line of code.
SourceItems ==
    {SchemaItem(NameCust),
     SchemaItem(NameOrd),
     SchemaItem(<<>>),
     ColumnsItem(<<Typed(NameId, TypeInt), Typed(NameAmt, TypeStr)>>),
     ColumnsItem(<<Nullable(NameId, TypeStr), Flagged(NameAmt, TypeInt)>>),
     ColumnsItem(<<Bare(NameAmt, TypeStr), Typed(NameId, TypeStr), Unclosed(NameAmt, TypeInt)>>),
     CodeItem}

Sources == UNION {[1..n -> SourceItems] : n \in 0..MaxItems}

InitExtract ==
    /\ source \in Sources
    /\ notebook = render(source)
    /\ schemas = EmptyDict
    /\ extract_done = FALSE
    /\ earlier = <<>>
    /\ PipelineIdle
    /\ ValidationIdle
    /\ DeployIdle
    /\ ValidatorsIdle
    /\ schema_file = ABSENT
    /\ file_before = ABSENT
    /\ fail_on_breaking = FALSE
    /\ pc = "ready"
    /\ has_breaking_changes = FALSE
    /\ all_changes = <<>>
    /\ exit_code = 0
    /\ previous_exit = <<>>
    /\ old_schema = EmptyDict
    /\ new_schema = EmptyDict
    /\ changes = <<>>
    /\ called = FALSE

\* Mutant: tables the notebook does not declare are taken over from the
\* baseline file.
extract_now_over_baseline ==
    LET found == extract_schema_from_notebook(notebook)
        base == Baseline(schema_file)
    IN  [t \in (DOMAIN base) \cup (DOMAIN found) |->
            IF t \in DOMAIN found THEN found[t] ELSE base[t]]

\* detector.extract_schema_from_notebook() on the file at notebook_path
extract_now == extract_schema_from_notebook(notebook)

\* The first call of extract_schema_from_notebook.
ExtractSchema ==
    /\ ~extract_done
    /\ schemas' = extract_now
    /\ extract_done' = TRUE
    /\ UNCHANGED <<source, earlier, diff_vars, run_vars, beyond_detector>>

\* Between two calls a run of another branch leaves its baseline beside the
\* notebook.
WriteBaseline ==
    /\ extract_done
    /\ earlier = <<>>
    /\ schema_file = ABSENT
    /\ schema_file' = save_current_schema(
                          OneColumn(NameOrd, NameAmt, [type |-> TypeStr, nullable |-> FALSE]))
    /\ UNCHANGED <<notebook, file_before, fail_on_breaking, pc, has_breaking_changes,
                   all_changes, exit_code, previous_exit, diff_vars, extract_vars,
                   beyond_detector>>

\* A second call on the same notebook text.
ExtractAgain ==
    /\ extract_done
    /\ earlier = <<>>
    /\ schema_file # ABSENT
    /\ earlier' = <<schemas>>
    /\ schemas' = extract_now
    /\ UNCHANGED <<source, extract_done, diff_vars, run_vars, beyond_detector>>

NextExtract == ExtractSchema \/ WriteBaseline \/ ExtractAgain

SpecExtract == InitExtract /\ [][NextExtract]_vars

-----------------------------------------------------------------------------
(* scripts/trigger_fabric_deployment_pipeline.py: main, deploy_to_stage    *)
(* and _wait_for_deployment.  The Fabric API and the credential provider   *)
(* are the environment: what a request answers is an input of the step     *)
(* that sends it.                                                          *)

\* The detector is not running.
DetectorIdle ==
    /\ old_schema = EmptyDict
    /\ new_schema = EmptyDict
    /\ changes = <<>>
    /\ called = FALSE
    /\ notebook = <<>>
    /\ schema_file = ABSENT
    /\ file_before = ABSENT
    /\ fail_on_breaking = FALSE
    /\ pc = "ready"
    /\ has_breaking_changes = FALSE
    /\ all_changes = <<>>
    /\ exit_code = 0
    /\ previous_exit = <<>>
    /\ source = <<>>
    /\ schemas = EmptyDict
    /\ extract_done = FALSE
    /\ earlier = <<>>

\* choices=[0, 1, 2]: 0=Dev, 1=Test, 2=Prod
StageOrders == {0, 1, 2}

\* timeout: int = 600
timeout == 600

\* time.sleep(10)
POLL_SECONDS == 10

\* Seconds a status request may take to return or raise.
RequestSeconds == {0, 5}

\* What a request for the operation can observe: a status, or "error" for a
\* RequestException.
PollOutcomes == {"Succeeded", "Failed", "NotStarted", "Running", "Cancelled", "error"}

\* What the POST to /deploy can answer: "error" (RequestException), "202"
\* (202 Accepted), "empty" (no content), "operation" (JSON with an
\* operationId), "no_operation" (JSON without one), "not_json".
DeployResponses == {"error", "202", "empty", "operation", "no_operation", "not_json"}

\* Mutant: equal source and target stages pass the validation.
stage_order_rejected_strict(source_order, target_order) == source_order > target_order

\* if args.source_stage >= args.target_stage
stage_order_rejected(source_order, target_order) == source_order >= target_order

\* deploy_to_stage after the POST: "true" or "false" for what it returns at
\* once, "wait" when it calls _wait_for_deployment.
after_post(response, wait) ==
    IF response = "error" THEN "false"
    ELSE IF response \in {"202", "empty"} THEN "true"
    ELSE IF response = "operation" /\ wait THEN "wait"
    ELSE "true"

\* Mutant: a status that is not known counts as a failure.
after_poll_unknown_fails(observed) ==
    IF observed = "Succeeded" THEN "true"
    ELSE IF observed \in {"NotStarted", "Running", "error"} THEN "sleep"
    ELSE "false"

\* The body of the polling loop: "true" or "false" for what it returns,
\* "sleep" when it sleeps and tests the loop condition again.
after_poll(observed) ==
    IF observed = "Succeeded" THEN "true"
    ELSE IF observed = "Failed" THEN "false"
    ELSE "sleep"

InitPipeline ==
    /\ source_stage \in StageOrders
    /\ target_stage \in StageOrders
    /\ info \in BOOLEAN
    /\ no_wait \in BOOLEAN
    /\ pipeline_pc = "main"
    /\ token = FALSE
    /\ requests_sent = {}
    /\ elapsed = 0
    /\ status = "none"
    /\ success = <<>>
    /\ pipeline_exit = <<>>
    /\ DetectorIdle
    /\ ValidationIdle
    /\ DeployIdle
    /\ ValidatorsIdle

\* sys.exit(code)
Exit(code) ==
    /\ pipeline_pc' = "exited"
    /\ pipeline_exit' = <<code>>

\* deploy_to_stage returns value, and main exits on it.
Return(value) ==
    /\ success' = <<value>>
    /\ Exit(IF value THEN 0 ELSE 1)

\* main: validate the stage order
ValidateStageOrder ==
    /\ pipeline_pc = "main"
    /\ IF stage_order_rejected(source_stage, target_stage)
       THEN Exit(1)
       ELSE pipeline_pc' = "token" /\ UNCHANGED pipeline_exit
    /\ UNCHANGED <<source_stage, target_stage, info, no_wait, token, requests_sent,
                   elapsed, status, success, beyond_pipeline>>

\* FabricDeploymentPipeline.__init__ and _get_access_token
GetAccessToken ==
    /\ pipeline_pc = "token"
    /\ \E acquired \in BOOLEAN :
          IF acquired
          THEN /\ token' = TRUE
               /\ pipeline_pc' = IF info THEN "info" ELSE "stages"
               /\ UNCHANGED pipeline_exit
          ELSE /\ Exit(1)
               /\ UNCHANGED token
    /\ UNCHANGED <<source_stage, target_stage, info, no_wait, requests_sent,
                   elapsed, status, success, beyond_pipeline>>

\* main with --info: get_pipeline_info, then get_pipeline_stages, then return
ShowInfo ==
    /\ pipeline_pc = "info"
    /\ \E info_ok \in BOOLEAN, stages_ok \in BOOLEAN :
          /\ requests_sent' = requests_sent \cup
                                 (IF info_ok THEN {"pipeline", "stages"} ELSE {"pipeline"})
          /\ Exit(IF info_ok /\ stages_ok THEN 0 ELSE 1)
    /\ UNCHANGED <<source_stage, target_stage, info, no_wait, token,
                   elapsed, status, success, beyond_pipeline>>

\* deploy_to_stage: get_pipeline_stages and the lookup of the two stages
GetPipelineStages ==
    /\ pipeline_pc = "stages"
    /\ requests_sent' = requests_sent \cup {"stages"}
    /\ \E ok \in BOOLEAN, orders \in SUBSET StageOrders :
          IF ~ok
          THEN Exit(1) /\ UNCHANGED success
          ELSE IF source_stage \notin orders \/ target_stage \notin orders
          THEN Return(FALSE)
          ELSE pipeline_pc' = "deploy" /\ UNCHANGED <<success, pipeline_exit>>
    /\ UNCHANGED <<source_stage, target_stage, info, no_wait, token,
                   elapsed, status, beyond_pipeline>>

\* deploy_to_stage: the POST and what follows it up to the polling loop
PostDeployment ==
    /\ pipeline_pc = "deploy"
    /\ requests_sent' = requests_sent \cup {"deploy"}
    /\ \E response \in DeployResponses :
          LET next == after_post(response, ~no_wait)
          IN  IF next = "wait"
              THEN pipeline_pc' = "polling" /\ UNCHANGED <<success, pipeline_exit>>
              ELSE Return(next = "true")
    /\ UNCHANGED <<source_stage, target_stage, info, no_wait, token,
                   elapsed, status, beyond_pipeline>>

\* _wait_for_deployment: one turn of the loop
Poll ==
    /\ pipeline_pc = "polling"
    /\ elapsed < timeout
    /\ requests_sent' = requests_sent \cup {"operation"}
    /\ \E observed \in PollOutcomes, seconds \in RequestSeconds :
          /\ status' = observed
          /\ LET next == after_poll(observed)
             IN  IF next = "sleep"
                 THEN /\ elapsed' = elapsed + seconds + POLL_SECONDS
                      /\ UNCHANGED <<pipeline_pc, success, pipeline_exit>>
                 ELSE /\ elapsed' = elapsed + seconds
                      /\ Return(next = "true")
    /\ UNCHANGED <<source_stage, target_stage, info, no_wait, token, beyond_pipeline>>

\* _wait_for_deployment: the loop condition fails
TimeOut ==
    /\ pipeline_pc = "polling"
    /\ ~(elapsed < timeout)
    /\ Return(FALSE)
    /\ UNCHANGED <<source_stage, target_stage, info, no_wait, token, requests_sent,
                   elapsed, status, beyond_pipeline>>

NextPipeline ==
    \/ ValidateStageOrder
    \/ GetAccessToken
    \/ ShowInfo
    \/ GetPipelineStages
    \/ PostDeployment
    \/ Poll
    \/ TimeOut

SpecPipeline == InitPipeline /\ [][NextPipeline]_vars

\* Every request returns or raises, and the script goes on.
SpecPipelineFair == SpecPipeline /\ WF_vars(NextPipeline)

-----------------------------------------------------------------------------
(* scripts/validate_deployment.py: main and DeploymentValidator.  What a   *)
(* request answers is "ok" (status 200), "refused" (another status) or     *)
(* "raises" (an exception).                                                *)

Responses == {"ok", "refused", "raises"}

Environments == {"dev", "test", "prod"}

\* check_workspace_access: the returned value
check_workspace_access(response) == response = "ok"

\* check_notebooks and check_workspace_state: the returned value, and whether
\* a warning was printed
check_listing(response) ==
    [result |-> TRUE, warning |-> response # "ok"]

\* validate_deployment: all_passed
all_passed(results) == \A i \in DOMAIN results : results[i][2]

InitValidation ==
    /\ strict_mode \in BOOLEAN
    /\ environment \in Environments
    /\ validate_pc = "main"
    /\ checks = <<>>
    /\ warned = {}
    /\ validate_exit = <<>>
    /\ DetectorIdle
    /\ PipelineIdle
    /\ DeployIdle
    /\ ValidatorsIdle

\* main: DeploymentValidator(...) acquires the token
ConstructValidator ==
    /\ validate_pc = "main"
    /\ \E acquired \in BOOLEAN :
          IF acquired
          THEN validate_pc' = "access" /\ UNCHANGED validate_exit
          ELSE validate_pc' = "exited" /\ validate_exit' = <<1>>
    /\ UNCHANGED <<strict_mode, environment, checks, warned, beyond_validation>>

CheckWorkspaceAccess ==
    /\ validate_pc = "access"
    /\ \E response \in Responses :
          checks' = Append(checks, <<"Workspace Access", check_workspace_access(response)>>)
    /\ validate_pc' = "notebooks"
    /\ UNCHANGED <<strict_mode, environment, warned, validate_exit, beyond_validation>>

CheckNotebooks ==
    /\ validate_pc = "notebooks"
    /\ \E response \in Responses :
          /\ checks' = Append(checks, <<"Notebooks", check_listing(response).result>>)
          /\ warned' = IF check_listing(response).warning
                        THEN warned \cup {"Notebooks"} ELSE warned
    /\ validate_pc' = "state"
    /\ UNCHANGED <<strict_mode, environment, validate_exit, beyond_validation>>

CheckWorkspaceState ==
    /\ validate_pc = "state"
    /\ \E response \in Responses :
          /\ checks' = Append(checks, <<"Workspace State", check_listing(response).result>>)
          /\ warned' = IF check_listing(response).warning
                        THEN warned \cup {"Workspace State"} ELSE warned
    /\ validate_pc' = "results"
    /\ UNCHANGED <<strict_mode, environment, validate_exit, beyond_validation>>

\* validate_deployment returns all_passed and main exits on it
ReportValidation ==
    /\ validate_pc = "results"
    /\ validate_pc' = "exited"
    /\ validate_exit' = IF all_passed(checks) THEN <<0>> ELSE <<1>>
    /\ UNCHANGED <<strict_mode, environment, checks, warned, beyond_validation>>

NextValidation ==
    \/ ConstructValidator
    \/ CheckWorkspaceAccess
    \/ CheckNotebooks
    \/ CheckWorkspaceState
    \/ ReportValidation

SpecValidation == InitValidation /\ [][NextValidation]_vars

-----------------------------------------------------------------------------
(* scripts/deploy_to_fabric.py: main and FabricDeployer.  A request        *)
(* answers "ok" (status 200, or 200/201/202 for a POST), "refused"         *)
(* (another status) or "raises" (an exception).                            *)

NotebookNames == {"etl", "report"}

ArtifactTypes == {"notebooks", "pipelines", "all"}

\* The contents notebooks/ can have: no two files share a stem.
NotebookDirectories ==
    { d \in SUBSET [stem : NotebookNames, readable : BOOLEAN] :
        \A f, g \in d : f.stem = g.stem => f = g }

Stems(files) == { f.stem : f \in files }

\* main: the artifact types whose deploy step runs
Selected(type) ==
    IF type = "all" THEN {"notebooks", "pipelines"} ELSE {type}

\* validate_workspace: the returned value
validate_workspace(response) == response = "ok"

\* _get_notebook_by_name: whether a notebook is returned
get_notebook_by_name(name, listing, existing) ==
    listing = "ok" /\ name \in existing

\* _deploy_notebook: the request it sends ("none" when json.load raises) and
\* the value it returns
deploy_notebook(file, listing, response, existing) ==
    IF ~file.readable
    THEN [request |-> "none", result |-> FALSE]
    ELSE [request |-> IF get_notebook_by_name(file.stem, listing, existing)
                      THEN "update" ELSE "create",
          result |-> response = "ok"]

\* Mutant: the loop of deploy_notebooks stops at the first failure.
notebooks_left_fail_fast(files, results) ==
    IF \E a \in results : ~a.result
    THEN {}
    ELSE { f \in files : f.stem \notin Stems(results) }

\* deploy_notebooks: the files the loop has yet to pass to _deploy_notebook
notebooks_left(files, results) ==
    { f \in files : f.stem \notin Stems(results) }

\* deploy_notebooks: the returned value, success_count == len(notebook_files)
deploy_notebooks(files, results) ==
    Cardinality({ a \in results : a.result }) = Cardinality(files)

\* deploy_pipelines: the returned value
deploy_pipelines == TRUE

\* main: the step after the one at position `at`
following(at, type) ==
    CASE at = "validate" /\ "notebooks" \in Selected(type) -> "notebooks"
      [] at = "validate" -> "pipelines"
      [] at = "notebooks" /\ "pipelines" \in Selected(type) -> "pipelines"
      [] OTHER -> "report"

InitDeploy ==
    /\ artifact_type \in ArtifactTypes
    /\ validate_before_deploy \in BOOLEAN
    /\ notebook_files \in NotebookDirectories
    /\ workspace \in SUBSET NotebookNames
    /\ deploy_pc = "main"
    /\ workspace_valid = <<>>
    /\ attempted = {}
    /\ sent = {}
    /\ steps = {}
    /\ deploy_exit = <<>>
    /\ DetectorIdle
    /\ PipelineIdle
    /\ ValidationIdle
    /\ ValidatorsIdle

\* main: FabricDeployer(...) acquires the token
ConstructDeployer ==
    /\ deploy_pc = "main"
    /\ \E acquired \in BOOLEAN :
          IF ~acquired
          THEN deploy_pc' = "exited" /\ deploy_exit' = <<1>>
          ELSE /\ deploy_pc' = IF validate_before_deploy
                               THEN "validate"
                               ELSE following("validate", artifact_type)
               /\ UNCHANGED deploy_exit
    /\ UNCHANGED <<artifact_type, validate_before_deploy, notebook_files, workspace,
                   workspace_valid, attempted, sent, steps, beyond_deploy>>

\* main: if args.validate_before_deploy ...
ValidateWorkspace ==
    /\ deploy_pc = "validate"
    /\ \E response \in Responses :
          /\ workspace_valid' = <<validate_workspace(response)>>
          /\ IF validate_workspace(response)
             THEN deploy_pc' = following("validate", artifact_type)
                  /\ UNCHANGED deploy_exit
             ELSE deploy_pc' = "exited" /\ deploy_exit' = <<1>>
    /\ UNCHANGED <<artifact_type, validate_before_deploy, notebook_files, workspace,
                   attempted, sent, steps, beyond_deploy>>

\* deploy_notebooks: one turn of the loop.  glob yields the files in any order;
\* a create the service accepts adds the notebook to the workspace.
DeployNotebook ==
    /\ deploy_pc = "notebooks"
    /\ \E file \in notebooks_left(notebook_files, attempted) :
       \E listing \in Responses, response \in Responses :
          LET outcome == deploy_notebook(file, listing, response, workspace) IN
          /\ attempted' = attempted \cup
                            {[stem |-> file.stem, result |-> outcome.result]}
          /\ sent' = IF outcome.request = "none"
                     THEN sent
                     ELSE sent \cup {[request |-> outcome.request,
                                      name |-> file.stem,
                                      existed |-> file.stem \in workspace]}
          /\ workspace' = IF outcome.request = "create" /\ outcome.result
                          THEN workspace \cup {file.stem}
                          ELSE workspace
    /\ UNCHANGED <<artifact_type, validate_before_deploy, notebook_files, deploy_pc,
                   workspace_valid, steps, deploy_exit, beyond_deploy>>

\* deploy_notebooks returns
ReturnNotebooks ==
    /\ deploy_pc = "notebooks"
    /\ notebooks_left(notebook_files, attempted) = {}
    /\ steps' = steps \cup {[type |-> "notebooks",
                             result |-> deploy_notebooks(notebook_files, attempted)]}
    /\ deploy_pc' = following("notebooks", artifact_type)
    /\ UNCHANGED <<artifact_type, validate_before_deploy, notebook_files, workspace,
                   workspace_valid, attempted, sent, deploy_exit, beyond_deploy>>

DeployPipelines ==
    /\ deploy_pc = "pipelines"
    /\ steps' = steps \cup {[type |-> "pipelines", result |-> deploy_pipelines]}
    /\ deploy_pc' = "report"
    /\ UNCHANGED <<artifact_type, validate_before_deploy, notebook_files, workspace,
                   workspace_valid, attempted, sent, deploy_exit, beyond_deploy>>

\* main: success is False once a step returned False
ReportDeploy ==
    /\ deploy_pc = "report"
    /\ deploy_pc' = "exited"
    /\ deploy_exit' = IF \A s \in steps : s.result THEN <<0>> ELSE <<1>>
    /\ UNCHANGED <<artifact_type, validate_before_deploy, notebook_files, workspace,
                   workspace_valid, attempted, sent, steps, beyond_deploy>>

\* The script is started again with the same arguments on the same workspace.
DeployAgain ==
    /\ deploy_pc = "exited"
    /\ deploy_pc' = "main"
    /\ workspace_valid' = <<>>
    /\ attempted' = {}
    /\ sent' = {}
    /\ steps' = {}
    /\ deploy_exit' = <<>>
    /\ UNCHANGED <<artifact_type, validate_before_deploy, notebook_files, workspace,
                   beyond_deploy>>

NextDeploy ==
    \/ ConstructDeployer
    \/ ValidateWorkspace
    \/ DeployNotebook
    \/ ReturnNotebooks
    \/ DeployPipelines
    \/ ReportDeploy
    \/ DeployAgain

SpecDeploy == InitDeploy /\ [][NextDeploy]_vars

-----------------------------------------------------------------------------
(* scripts/validate_notebooks.py and scripts/validate_pipelines.py.  A     *)
(* check yields the entries it appends to self.errors and self.warnings,   *)
(* and the value it returns.                                               *)

MaxFiles == 2
MaxCalls == 2

Validators == {"NotebookValidator", "PipelineValidator"}

Passed == [errors |-> <<>>, warnings |-> <<>>, result |-> TRUE]
Warned(message) == [errors |-> <<>>, warnings |-> <<message>>, result |-> TRUE]
Failed(message) == [errors |-> <<message>>, warnings |-> <<>>, result |-> FALSE]

\* What the checks made one after the other append and return: all(checks).
Both(first, second) ==
    [errors |-> first.errors \o second.errors,
     warnings |-> first.warnings \o second.warnings,
     result |-> first.result /\ second.result]

\* A notebook file: what nbformat.read does with it ("ok", "json" for a
\* JSONDecodeError, "error" for another exception), what nbformat.validate
\* does ("ok", "invalid" for a ValidationError, "error" for another
\* exception), whether the metadata has a kernelspec, and the cells.  The
\* version 4 schema requires cell_type and source, so a cell that lacks one
\* comes with a format that is not valid.
Cell(type, has_source, has_outputs) ==
    [cell_type |-> type, source |-> has_source, outputs |-> has_outputs]

Notebook(read, format, kernelspec, cells) ==
    [read |-> read, format |-> format, kernelspec |-> kernelspec, cells |-> cells]

NotebookDocuments ==
    { Notebook("json", "ok", FALSE, <<>>),
      Notebook("error", "ok", FALSE, <<>>),
      Notebook("ok", "ok", TRUE,
               <<Cell("markdown", TRUE, FALSE), Cell("code", TRUE, FALSE)>>),
      Notebook("ok", "ok", FALSE, <<Cell("code", TRUE, TRUE)>>),
      Notebook("ok", "ok", TRUE, <<>>),
      Notebook("ok", "invalid", TRUE,
               <<Cell("markdown", TRUE, FALSE), Cell("none", TRUE, FALSE)>>),
      Notebook("ok", "invalid", FALSE, <<Cell("code", FALSE, FALSE)>>),
      Notebook("ok", "error", TRUE, <<Cell("code", TRUE, FALSE)>>) }

\* A pipeline file: what json.load does with it, whether the value supports
\* `in` with a key (a number or null raises TypeError), whether it has a
\* name, its properties ("absent", "bare" without activities, "activities")
\* and the activities.
Activity(has_name, has_type) == [name |-> has_name, type |-> has_type]

Pipeline(read, container, has_name, properties, activities) ==
    [read |-> read, container |-> container, name |-> has_name,
     properties |-> properties, activities |-> activities]

PipelineDocuments ==
    { Pipeline("json", TRUE, FALSE, "absent", <<>>),
      Pipeline("ok", FALSE, FALSE, "absent", <<>>),
      Pipeline("ok", TRUE, FALSE, "absent", <<>>),
      Pipeline("ok", TRUE, TRUE, "bare", <<>>),
      Pipeline("ok", TRUE, TRUE, "activities", <<>>),
      Pipeline("ok", TRUE, TRUE, "activities", <<Activity(TRUE, TRUE)>>),
      Pipeline("ok", TRUE, TRUE, "activities",
               <<Activity(TRUE, TRUE), Activity(FALSE, TRUE)>>),
      Pipeline("ok", TRUE, TRUE, "activities", <<Activity(TRUE, FALSE)>>),
      Pipeline("ok", TRUE, FALSE, "activities", <<Activity(FALSE, FALSE)>>) }

Documents(class) ==
    IF class = "NotebookValidator" THEN NotebookDocuments ELSE PipelineDocuments

\* The directories a validator can be pointed at.
Directories(class) ==
    {[exists |-> FALSE, files |-> <<>>]}
    \cup { [exists |-> TRUE, files |-> files] :
             files \in UNION { [1..n -> Documents(class)] : n \in 0..MaxFiles } }

\* The first index of a sequence that satisfies Test, 0 when there is none.
FirstIndex(seq, Test(_)) ==
    IF \E i \in DOMAIN seq : Test(seq[i])
    THEN CHOOSE i \in DOMAIN seq :
            Test(seq[i]) /\ \A j \in 1..(i - 1) : ~Test(seq[j])
    ELSE 0

check_notebook_format(nb) ==
    IF nb.format = "ok" THEN Passed ELSE Failed("Format validation failed")

\* Mutant: a missing kernelspec fails the check.
check_metadata_strict(nb) ==
    IF ~nb.kernelspec
    THEN [errors |-> <<>>, warnings |-> <<"Missing kernelspec metadata">>,
          result |-> FALSE]
    ELSE Passed

check_metadata(nb) ==
    IF ~nb.kernelspec THEN Warned("Missing kernelspec metadata") ELSE Passed

check_cells(nb) ==
    LET cells == nb.cells
        Incomplete(cell) == cell.cell_type = "none" \/ ~cell.source
        bad == FirstIndex(cells, Incomplete)
        documentation ==
            IF \A i \in DOMAIN cells : cells[i].cell_type # "markdown"
            THEN Warned("No markdown cells")
            ELSE Passed
    IN  IF cells = <<>>
        THEN Failed("Notebook has no cells")
        ELSE IF bad = 0
        THEN documentation
        ELSE Both(documentation,
                  IF cells[bad].cell_type = "none"
                  THEN Failed("Cell missing cell_type")
                  ELSE Failed("Cell missing source"))

check_outputs(nb) ==
    IF \E i \in DOMAIN nb.cells :
          nb.cells[i].cell_type = "code" /\ nb.cells[i].outputs
    THEN Warned("cell(s) have outputs/execution counts")
    ELSE Passed

validate_notebook(nb) ==
    CASE nb.read = "json" -> Failed("Invalid JSON")
      [] nb.read = "error" -> Failed("Validation error")
      [] nb.format = "error" -> Failed("Validation error")
      [] OTHER ->
            Both(Both(check_notebook_format(nb), check_metadata(nb)),
                 Both(check_cells(nb), check_outputs(nb)))

check_pipeline_structure(data) ==
    LET named == IF data.name THEN Passed ELSE Warned("Missing 'name' field")
        Incomplete(activity) == ~activity.name \/ ~activity.type
        bad == FirstIndex(data.activities, Incomplete)
    IN  CASE data.properties = "absent" -> named
          [] data.properties = "bare" -> Both(named, Warned("No activities defined"))
          [] OTHER ->
                IF bad = 0
                THEN named
                ELSE Both(named,
                          IF ~data.activities[bad].name
                          THEN Failed("Activity missing 'name'")
                          ELSE Failed("Activity missing 'type'"))

validate_pipeline(data) ==
    CASE data.read = "json" -> Failed("Invalid JSON")
      [] data.read = "error" -> Failed("Validation error")
      [] ~data.container -> Failed("Validation error")
      [] OTHER -> check_pipeline_structure(data)

\* validate_all: the loop over the files
RECURSIVE validate_each(_, _)
validate_each(class, files) ==
    IF files = <<>>
    THEN Passed
    ELSE Both(IF class = "NotebookValidator"
              THEN validate_notebook(Head(files))
              ELSE validate_pipeline(Head(files)),
              validate_each(class, Tail(files)))

validate_all(class, dir) ==
    CASE class = "NotebookValidator" /\ dir.files = <<>> -> Failed("No notebooks found")
      [] class = "PipelineValidator" /\ dir.files = <<>> -> Passed
      [] OTHER -> validate_each(class, dir.files)

InitValidators ==
    /\ validator \in Validators
    /\ directory \in Directories(validator)
    /\ errors = <<>>
    /\ warnings = <<>>
    /\ errors_before = <<>>
    /\ returned = <<>>
    /\ DetectorIdle
    /\ PipelineIdle
    /\ ValidationIdle
    /\ DeployIdle

\* validator.validate_all()
ValidateAll ==
    /\ Len(returned) < MaxCalls
    /\ LET outcome == validate_all(validator, directory) IN
          /\ errors' = errors \o outcome.errors
          /\ warnings' = warnings \o outcome.warnings
          /\ returned' = Append(returned, outcome.result)
    /\ errors_before' = <<Len(errors)>>
    /\ UNCHANGED <<validator, directory, beyond_validators>>

\* One of the files is removed between two calls on the same validator.
RemoveFile ==
    /\ returned # <<>>
    /\ Len(returned) < MaxCalls
    /\ \E i \in DOMAIN directory.files :
          directory' = [directory EXCEPT
                          !.files = SubSeq(@, 1, i - 1) \o SubSeq(@, i + 1, Len(@))]
    /\ UNCHANGED <<validator, errors, warnings, errors_before, returned,
                   beyond_validators>>

NextValidators == ValidateAll \/ RemoveFile

SpecValidators == InitValidators /\ [][NextValidators]_vars

-----------------------------------------------------------------------------
(* Properties of detect_changes, checked under SpecDiff                    *)

\* The (table, column) pairs for which list cs holds a change of the given type.
Reported(cs, type) ==
    {<<cs[i].table, cs[i].column>> : i \in {j \in DOMAIN cs : cs[j].type = type}}

\* The column is declared for the table in the snapshot.
HasColumn(schema, table, column) ==
    /\ table \in DOMAIN schema
    /\ "columns" \in DOMAIN schema[table]
    /\ column \in DOMAIN schema[table]["columns"]

InBoth(table, column) ==
    HasColumn(old_schema, table, column) /\ HasColumn(new_schema, table, column)

\* The column's nullable flag, a missing flag counting as non-nullable.
IsNullable(schema, table, column) ==
    /\ "nullable" \in DOMAIN schema[table]["columns"][column]
    /\ schema[table]["columns"][column]["nullable"]

TypeOf(schema, table, column) == schema[table]["columns"][column]["type"]

\* C1: in every returned list the severity is fixed by the change type:
\* column_made_nullable, column_removed and data_type_changed are BREAKING,
\* column_added and column_made_non_nullable are SAFE.
C1_SeverityFixedByType ==
    called =>
        \A i \in DOMAIN changes :
            /\ changes[i].type \in {"column_made_nullable", "column_removed", "data_type_changed"}
                  => changes[i].severity = "BREAKING"
            /\ changes[i].type \in {"column_added", "column_made_non_nullable"}
                  => changes[i].severity = "SAFE"
            /\ changes[i].type \in {"column_made_nullable", "column_removed", "data_type_changed",
                                    "column_added", "column_made_non_nullable"}

C1_Witness ==
    /\ called
    /\ \E i \in DOMAIN changes : changes[i].type = "column_made_nullable"
    /\ \E i \in DOMAIN changes : changes[i].type = "data_type_changed"

\* C2: column_removed is reported for (table, column) iff the column is in
\* previous[table].columns and not in current[table].columns, column_added iff
\* it is in current and not in previous; a table present in only one snapshot
\* yields exactly one such event per column of that table and no other event.
OnlyEvents(table, schema, type) ==
    LET mine == SelectSeq(changes, LAMBDA c : c.table = table)
    IN  /\ \A i \in DOMAIN mine : mine[i].type = type
        /\ \A column \in ColumnNames :
              Cardinality({i \in DOMAIN mine : mine[i].column = column}) =
                  IF HasColumn(schema, table, column) THEN 1 ELSE 0

C2_AddedRemoved ==
    called =>
        /\ \A table \in TableNames, column \in ColumnNames :
              /\ <<table, column>> \in Reported(changes, "column_removed")
                    <=> (HasColumn(old_schema, table, column)
                         /\ ~HasColumn(new_schema, table, column))
              /\ <<table, column>> \in Reported(changes, "column_added")
                    <=> (HasColumn(new_schema, table, column)
                         /\ ~HasColumn(old_schema, table, column))
        /\ \A table \in (DOMAIN old_schema) \ (DOMAIN new_schema) :
              OnlyEvents(table, old_schema, "column_removed")
        /\ \A table \in (DOMAIN new_schema) \ (DOMAIN old_schema) :
              OnlyEvents(table, new_schema, "column_added")
        /\ \A i \in DOMAIN changes :
              changes[i].table \in TableNames /\ changes[i].column \in ColumnNames

C2_Witness ==
    /\ called
    /\ \E table \in (DOMAIN new_schema) \ (DOMAIN old_schema) :
          \E column \in ColumnNames : HasColumn(new_schema, table, column)
    /\ Reported(changes, "column_removed") # {}
    /\ Reported(changes, "column_added") # {}

\* C3: for a column present in both snapshots of a table, column_made_nullable
\* is reported iff previous is non-nullable and current is nullable, and
\* column_made_non_nullable iff previous is nullable and current is not; with
\* equal flags (a missing flag counting as non-nullable) neither is reported.
C3_NullabilityChanges ==
    called =>
        \A table \in TableNames, column \in ColumnNames :
            InBoth(table, column) =>
                /\ <<table, column>> \in Reported(changes, "column_made_nullable")
                      <=> (~IsNullable(old_schema, table, column)
                           /\ IsNullable(new_schema, table, column))
                /\ <<table, column>> \in Reported(changes, "column_made_non_nullable")
                      <=> (IsNullable(old_schema, table, column)
                           /\ ~IsNullable(new_schema, table, column))

C3_Witness ==
    /\ called
    /\ \E table \in TableNames, column \in ColumnNames :
          /\ InBoth(table, column)
          /\ "nullable" \notin DOMAIN old_schema[table]["columns"][column]
          /\ IsNullable(new_schema, table, column)
          /\ <<table, column>> \in Reported(changes, "column_made_nullable")

\* C4: data_type_changed is reported for (table, column) iff the column is in
\* both snapshots of the table and its two type strings are not exactly equal.
C4_TypeChanges ==
    called =>
        \A table \in TableNames, column \in ColumnNames :
            <<table, column>> \in Reported(changes, "data_type_changed")
                <=> (/\ InBoth(table, column)
                     /\ TypeOf(old_schema, table, column) # TypeOf(new_schema, table, column))

C4_Witness ==
    /\ called
    /\ \E table \in TableNames, column \in ColumnNames :
          /\ InBoth(table, column)
          /\ TypeOf(old_schema, table, column) = "int"
          /\ TypeOf(new_schema, table, column) = "INT"
          /\ <<table, column>> \in Reported(changes, "data_type_changed")

\* C5: detect_changes(S, S) returns an empty list for every snapshot S.
C5_NoOpDiff == (called /\ old_schema = new_schema) => changes = <<>>

C5_Witness ==
    /\ called
    /\ old_schema = new_schema
    /\ \E table \in TableNames, column \in ColumnNames :
          /\ HasColumn(old_schema, table, column)
          /\ "nullable" \notin DOMAIN old_schema[table]["columns"][column]

\* detect_changes with the two snapshots exchanged
ReverseChanges ==
    detect_changes(new_schema, old_schema,
                   CHOOSE p \in Perms((DOMAIN old_schema) \cup (DOMAIN new_schema)) : TRUE,
                   CHOOSE p \in Perms(ColumnsIn(new_schema)) : TRUE,
                   CHOOSE p \in Perms(ColumnsIn(old_schema)) : TRUE)

\* C6: the pairs reported as column_removed by detect_changes(A, B) are the
\* pairs reported as column_added by detect_changes(B, A), and the pairs
\* reported as column_added by (A, B) are those reported as column_removed
\* by (B, A).
C6_AddRemoveSymmetry ==
    called =>
        /\ Reported(changes, "column_removed") = Reported(ReverseChanges, "column_added")
        /\ Reported(changes, "column_added") = Reported(ReverseChanges, "column_removed")

C6_Witness ==
    /\ called
    /\ Reported(changes, "column_removed") # {}
    /\ Reported(changes, "column_added") # {}
    /\ Reported(changes, "column_removed") # Reported(changes, "column_added")

\* C7: the returned list holds no two entries with the same
\* (table, column, type) triple.
C7_NoDuplicateChange ==
    called =>
        \A i, j \in DOMAIN changes :
            (/\ changes[i].table = changes[j].table
             /\ changes[i].column = changes[j].column
             /\ changes[i].type = changes[j].type) => i = j

C7_Witness ==
    /\ called
    /\ \E i, j \in DOMAIN changes :
          /\ i # j
          /\ changes[i].table = changes[j].table
          /\ changes[i].column = changes[j].column
    /\ \E table \in (DOMAIN old_schema) \cap (DOMAIN new_schema) :
          \E i \in DOMAIN changes : changes[i].table = table

-----------------------------------------------------------------------------
(* Properties of run and main, checked under Spec                          *)

\* detect_changes(previous baseline, current snapshot) of the invocation that
\* has just ended
DiffOfRun ==
    LET previous == Baseline(file_before)
        current == extracted(notebook)
    IN  detect_changes(previous, current,
                       CHOOSE p \in Perms((DOMAIN previous) \cup (DOMAIN current)) : TRUE,
                       CHOOSE p \in Perms(ColumnsIn(previous)) : TRUE,
                       CHOOSE p \in Perms(ColumnsIn(current)) : TRUE)

HasBreaking(cs) == \E i \in DOMAIN cs : cs[i].severity = "BREAKING"

\* C8 as stated: the boolean returned by run() is true iff at least one change
\* of detect_changes(previous baseline, current snapshot) is BREAKING.
C8_AsStated ==
    pc = "exited" => (has_breaking_changes <=> HasBreaking(DiffOfRun))

\* C8, amended: when the notebook declares at least one schema, the boolean
\* returned by run() is true iff at least one change of
\* detect_changes(previous baseline, current snapshot) is BREAKING; it is
\* false when the only changes are column_added or column_made_non_nullable.
C8_BreakingIffCompared ==
    (pc = "exited" /\ extracted(notebook) # EmptyDict) =>
        /\ has_breaking_changes <=> HasBreaking(DiffOfRun)
        /\ (\A i \in DOMAIN DiffOfRun :
               DiffOfRun[i].type \in {"column_added", "column_made_non_nullable"})
              => ~has_breaking_changes

C8_Witness ==
    /\ pc = "exited"
    /\ extracted(notebook) # EmptyDict
    /\ has_breaking_changes
    /\ \E i \in DOMAIN all_changes : all_changes[i].severity = "SAFE"

\* C9: a completed run exits with code 1 iff run() found breaking changes and
\* --fail-on-breaking was given, and with code 0 otherwise.
C9_ExitCode ==
    pc = "exited" =>
        /\ exit_code \in {0, 1}
        /\ exit_code = 1 <=> (has_breaking_changes /\ fail_on_breaking)

C9_Witness ==
    /\ pc = "exited"
    /\ exit_code = 1

\* C10: with no prior baseline file, a run on a notebook whose extracted
\* schema is non-empty reports no changes and leaves a baseline file that
\* holds the extracted schema.
C10_BaselineSeeding ==
    (pc # "ready" /\ file_before = ABSENT /\ extracted(notebook) # EmptyDict) =>
        /\ pc = "exited"
        /\ all_changes = <<>>
        /\ ~has_breaking_changes
        /\ schema_file.state = "document"
        /\ load_previous_schema(schema_file) = extracted(notebook)

C10_Witness ==
    /\ pc = "exited"
    /\ file_before = ABSENT
    /\ ColumnsIn(extracted(notebook)) # {}
    /\ schema_file.state = "document"

-----------------------------------------------------------------------------
(* Properties of the baseline file and of the skipped and aborted runs,    *)
(* checked under Spec                                                      *)

\* The file holds a JSON document whose content is the snapshot.
Holds(file, schema) ==
    file.state = "document" /\ load_previous_schema(file) = schema

\* The run went past both early returns of run(): the notebook declares a
\* schema, and the baseline was empty or differs from it.
ReachedSave ==
    /\ extracted(notebook) # EmptyDict
    /\ Baseline(file_before) = EmptyDict \/ all_changes # <<>>

\* C11 as stated: after any run() that completes, the content of
\* output_schema.json equals the snapshot extracted from the notebook.
C11_AsStated ==
    pc = "exited" => Holds(schema_file, extracted(notebook))

\* C11: after a run() that completes and reaches the save step (the notebook
\* declares a schema, and the baseline was absent or empty or a change was
\* detected) the content of output_schema.json equals the snapshot extracted
\* in that run; any other completed run leaves the file as it was.
C11_SavedWhenCompared ==
    pc = "exited" =>
        IF ReachedSave THEN Holds(schema_file, extracted(notebook))
        ELSE schema_file = file_before

C11_Witness ==
    /\ pc = "exited"
    /\ ReachedSave
    /\ all_changes # <<>>
    /\ schema_file # file_before

\* No line of the notebook holds the '# SCHEMA:' marker.
NoSchemaMarker ==
    \A i \in DOMAIN notebook : ~Contains(notebook[i], SCHEMA_MARKER)

\* C12: when the notebook contains no '# SCHEMA:' marker, extraction returns
\* an empty mapping and run() returns (False, []) whatever the baseline
\* contains, and neither creates nor modifies the baseline file.
C12_SkipWithoutSchema ==
    (pc # "ready" /\ NoSchemaMarker) =>
        /\ extracted(notebook) = EmptyDict
        /\ pc = "exited"
        /\ ~has_breaking_changes
        /\ all_changes = <<>>
        /\ schema_file = file_before

C12_Witness ==
    /\ pc = "exited"
    /\ NoSchemaMarker
    /\ \E i \in DOMAIN notebook : Contains(notebook[i], COLUMNS_MARKER)
    /\ ColumnsIn(Baseline(file_before)) # {}

\* The changes of list cs that are about the column of the table.
ChangesFor(cs, table, column) ==
    SelectSeq(cs, LAMBDA c : c.table = table /\ c.column = column)

\* C14 as stated: when the baseline holds column id of table cust with type
\* int and nullable=false and the notebook declares it as 'id (int, nullable)',
\* the run reports exactly one change for that column, of type
\* column_made_nullable with severity BREAKING, and has_breaking_changes is
\* true.
C14_AsStated ==
    ( /\ pc # "ready"
      /\ notebook = <<LINE_SCHEMA_CUST, LINE_COLS_ID_NULLABLE>>
      /\ HasColumn(Baseline(file_before), NameCust, NameId)
      /\ Baseline(file_before)[NameCust]["columns"][NameId] =
             [type |-> TypeInt, nullable |-> FALSE] ) =>
        /\ pc = "exited"
        /\ Len(ChangesFor(all_changes, NameCust, NameId)) = 1
        /\ ChangesFor(all_changes, NameCust, NameId)[1].type = "column_made_nullable"
        /\ ChangesFor(all_changes, NameCust, NameId)[1].severity = "BREAKING"
        /\ has_breaking_changes

\* C15 as stated: when the baseline file holds malformed JSON, run() aborts:
\* it returns no result, reports no changes and leaves the file unchanged.
C15_AsStated ==
    (pc # "ready" /\ file_before = MALFORMED) =>
        /\ pc = "aborted"
        /\ all_changes = <<>>
        /\ ~has_breaking_changes
        /\ schema_file = file_before

\* C15: when the baseline file holds malformed JSON and the notebook declares
\* at least one schema, run() aborts with the parse error: it returns no
\* result, reports no changes and leaves the baseline file unchanged.
C15_MalformedBaselineAborts ==
    (pc # "ready" /\ file_before = MALFORMED /\ extracted(notebook) # EmptyDict) =>
        /\ pc = "aborted"
        /\ all_changes = <<>>
        /\ ~has_breaking_changes
        /\ schema_file = file_before

C15_Witness ==
    /\ pc = "aborted"
    /\ file_before = MALFORMED
    /\ ColumnsIn(extracted(notebook)) # {}

-----------------------------------------------------------------------------
(* Renamed columns, checked under SpecDiff                                 *)

\* Column a of the table in old_schema is column b of the table in new_schema:
\* a is gone, b is new, and type and nullability are the same.
Renamed(table, a, b) ==
    /\ a # b
    /\ HasColumn(old_schema, table, a) /\ ~HasColumn(new_schema, table, a)
    /\ HasColumn(new_schema, table, b) /\ ~HasColumn(old_schema, table, b)
    /\ TypeOf(old_schema, table, a) = TypeOf(new_schema, table, b)
    /\ IsNullable(old_schema, table, a) = IsNullable(new_schema, table, b)

\* C16: detect_changes never emits column_renamed; a renamed column (same
\* table, same type and nullability) is reported as exactly one column_removed
\* for the old name and exactly one column_added for the new name, so the list
\* holds a BREAKING change and has_breaking_changes is true.
C16_RenameIsRemovePlusAdd ==
    called =>
        /\ \A i \in DOMAIN changes : changes[i].type # "column_renamed"
        /\ \A table \in TableNames, a \in ColumnNames, b \in ColumnNames :
              Renamed(table, a, b) =>
                  /\ Len(ChangesFor(changes, table, a)) = 1
                  /\ ChangesFor(changes, table, a)[1].type = "column_removed"
                  /\ Len(ChangesFor(changes, table, b)) = 1
                  /\ ChangesFor(changes, table, b)[1].type = "column_added"
                  /\ Len(BreakingOf(changes)) > 0

C16_Witness ==
    /\ called
    /\ \E table \in TableNames, a \in ColumnNames, b \in ColumnNames :
          /\ Renamed(table, a, b)
          /\ IsNullable(old_schema, table, a)
    /\ Len(changes) = 2

-----------------------------------------------------------------------------
(* Properties of extract_schema_from_notebook, checked under SpecExtract   *)

Markers == {i \in DOMAIN source : source[i].kind = "schema"}

\* The table names the notebook's schema markers give.
MarkedTables == {source[i].table : i \in Markers}

Largest(S) == IF S = {} THEN 0 ELSE CHOOSE j \in S : \A k \in S : k <= j

\* The most recent schema marker before line i; 0 when there is none.
MarkerBefore(i) == Largest({j \in Markers : j < i})

\* The last schema marker that names the table.
LastMarker(table) == Largest({j \in Markers : source[j].table = table})

\* The columns lines whose most recent marker names the table.
LinesOf(table) ==
    {i \in DOMAIN source :
        /\ source[i].kind = "columns"
        /\ MarkerBefore(i) # 0
        /\ source[MarkerBefore(i)].table = table}

\* Those of them that follow the last marker naming the table.
BlockLines(table) == {i \in LinesOf(table) : MarkerBefore(i) = LastMarker(table)}

\* Positions <<line, fragment>> of the declarations on a set of lines.
DeclsOn(lines) == UNION {{<<i, j>> : j \in DOMAIN source[i].decls} : i \in lines}

Declared(table) == DeclsOn(BlockLines(table))

DeclAt(p) == source[p[1]].decls[p[2]]

Later(p, q) == q[1] > p[1] \/ (q[1] = p[1] /\ q[2] > p[2])

\* 'name (type)' or 'name (type, nullable)'
WellFormed(d) == d.form \in {"typed", "nullable"}

\* The declaration is one comma-separated fragment that holds both
\* parentheses: 'name (type, nullable)' is two fragments with one each.
Parenthesised(d) == d.form \in {"typed", "flagged"}

\* The text between the parentheses of such a fragment.
ParenText(d) == IF d.form = "flagged" THEN d.type \o <<" ">> \o NULLABLE ELSE d.type

AnyForm(d) == TRUE

\* No later declaration in the block of the table, among those satisfying
\* Counts, names the same column.
LastOf(table, p, Counts(_)) ==
    ~\E q \in Declared(table) :
        Later(p, q) /\ Counts(DeclAt(q)) /\ DeclAt(q).name = DeclAt(p).name

\* C13 as stated: for every declaration 'name (type)' or 'name (type,
\* nullable)' on a COLUMNS line of an open table, extraction records a column
\* keyed by name whose type is the text between the parentheses before the
\* nullable keyword and whose nullable flag is true iff 'nullable' appears
\* inside the parentheses.
C13_AsStated ==
    extract_done =>
        \A table \in MarkedTables \ {<<>>} :
            \A p \in Declared(table) :
                (WellFormed(DeclAt(p)) /\ LastOf(table, p, AnyForm)) =>
                    /\ HasColumn(schemas, table, DeclAt(p).name)
                    /\ schemas[table]["columns"][DeclAt(p).name] =
                          [type |-> DeclAt(p).type,
                           nullable |-> (DeclAt(p).form = "nullable")]

\* C17: when several '# SCHEMA:' markers give the same table name, the entry
\* extracted for that table holds only columns declared after the last such
\* marker, with a type declared there: a later block overwrites, and never
\* merges with, an earlier block.
C17_LastBlockOnly ==
    extract_done =>
        \A table \in MarkedTables :
            Cardinality({i \in Markers : source[i].table = table}) >= 2 =>
                /\ table \in DOMAIN schemas
                /\ \A column \in DOMAIN schemas[table]["columns"] :
                      \E p \in Declared(table) :
                          /\ DeclAt(p).name = column
                          /\ ParenText(DeclAt(p)) = TypeOf(schemas, table, column)

C17_Witness ==
    /\ extract_done
    /\ \E table \in MarkedTables :
          /\ \E p \in DeclsOn(LinesOf(table) \ BlockLines(table)) :
                /\ Parenthesised(DeclAt(p))
                /\ DeclAt(p).name = NameAmt
          /\ HasColumn(schemas, table, NameId)
          /\ ~HasColumn(schemas, table, NameAmt)

\* C18 as stated: a '# COLUMNS:' line before any '# SCHEMA:' marker contributes
\* no table and no column, and every '# COLUMNS:' line after a marker
\* contributes its well-formed columns to the table named by the most recent
\* marker.
C18_AsStated ==
    extract_done =>
        /\ DOMAIN schemas = MarkedTables
        /\ \A table \in DOMAIN schemas :
              \A column \in DOMAIN schemas[table]["columns"] :
                  \E p \in DeclsOn(LinesOf(table)) : DeclAt(p).name = column
        /\ \A table \in MarkedTables :
              \A p \in Declared(table) :
                  WellFormed(DeclAt(p)) => HasColumn(schemas, table, DeclAt(p).name)

\* C19: a comma-separated fragment of a COLUMNS line that lacks an opening or
\* a closing parenthesis creates no column, and the fragments of the line that
\* hold both are still extracted: the columns of a table are exactly those
\* named by the fragments with both parentheses, with the type given there.
C19_MalformedSkipped ==
    extract_done =>
        \A table \in MarkedTables \ {<<>>} :
            /\ table \in DOMAIN schemas
            /\ DOMAIN schemas[table]["columns"] =
                  {DeclAt(p).name : p \in {q \in Declared(table) : Parenthesised(DeclAt(q))}}
            /\ \A p \in Declared(table) :
                  (Parenthesised(DeclAt(p)) /\ LastOf(table, p, Parenthesised)) =>
                      TypeOf(schemas, table, DeclAt(p).name) = ParenText(DeclAt(p))

C19_Witness ==
    /\ extract_done
    /\ \E table \in MarkedTables \ {<<>>} :
          /\ \E i \in BlockLines(table) :
                /\ \E j \in DOMAIN source[i].decls : source[i].decls[j].form = "bare"
                /\ \E j \in DOMAIN source[i].decls : source[i].decls[j].form = "unclosed"
                /\ \E j \in DOMAIN source[i].decls : source[i].decls[j].form = "typed"
          /\ HasColumn(schemas, table, NameId)
          /\ ~HasColumn(schemas, table, NameAmt)

\* C20: every snapshot returned by extraction maps each table name to an
\* entry that holds a 'columns' mapping (possibly empty), and each column
\* entry has a 'type' and a boolean 'nullable' field.
C20_SnapshotShape ==
    extract_done =>
        \A table \in DOMAIN schemas :
            /\ DOMAIN schemas[table] = {"columns"}
            /\ \A column \in DOMAIN schemas[table]["columns"] :
                  /\ DOMAIN schemas[table]["columns"][column] = {"type", "nullable"}
                  /\ schemas[table]["columns"][column]["nullable"] \in BOOLEAN

C20_Witness ==
    /\ extract_done
    /\ \E table \in DOMAIN schemas : schemas[table]["columns"] = EmptyDict
    /\ \E table \in DOMAIN schemas :
          \E column \in DOMAIN schemas[table]["columns"] :
              schemas[table]["columns"][column]["nullable"]

-----------------------------------------------------------------------------
(* Two runs in a row on the same notebook, checked under Spec              *)

\* C27: after a run completes, whatever its exit status, an immediately
\* following run on the unchanged notebook reports no changes, returns
\* has_breaking_changes false and exits with status 0.
C27_SecondRunPasses ==
    (pc = "exited" /\ previous_exit # <<>>) =>
        /\ all_changes = <<>>
        /\ ~has_breaking_changes
        /\ exit_code = 0

C27_Witness ==
    /\ pc = "exited"
    /\ previous_exit = <<1>>
    /\ fail_on_breaking
    /\ all_changes = <<>>

-----------------------------------------------------------------------------
(* Repeated extraction and accumulated COLUMNS lines, checked under        *)
(* SpecExtract                                                             *)

Declares(d) == d.form \in {"typed", "nullable", "flagged"}

\* C28 as stated: several '# COLUMNS:' lines after one '# SCHEMA:' marker
\* accumulate into the same table: the table holds the union of the columns
\* of all those lines, and where a name is declared more than once the last
\* declaration's type and nullable flag win.
C28_AsStated ==
    extract_done =>
        \A table \in MarkedTables \ {<<>>} :
            Cardinality(BlockLines(table)) >= 2 =>
                /\ table \in DOMAIN schemas
                /\ DOMAIN schemas[table]["columns"] =
                      {DeclAt(p).name : p \in {q \in Declared(table) : Declares(DeclAt(q))}}
                /\ \A p \in Declared(table) :
                      (WellFormed(DeclAt(p)) /\ LastOf(table, p, Declares)) =>
                          schemas[table]["columns"][DeclAt(p).name] =
                              [type |-> DeclAt(p).type,
                               nullable |-> (DeclAt(p).form = "nullable")]

-----------------------------------------------------------------------------
(* Properties of the pipeline trigger, checked under SpecPipeline and      *)
(* SpecPipelineFair                                                        *)

\* C22 as stated: deploy_to_stage called with wait=True returns True only
\* after the deployment operation was observed with status 'Succeeded', and
\* returns False otherwise.
C22_AsStated ==
    (success # <<>> /\ ~no_wait) => (success[1] <=> status = "Succeeded")

\* C24: whenever source stage >= target stage, main exits with status 1
\* before a token is acquired and before any request is sent, with or
\* without --info.
C24_ForwardOnly ==
    source_stage >= target_stage =>
        /\ ~token
        /\ requests_sent = {}
        /\ pipeline_pc \in {"main", "exited"}
        /\ pipeline_pc = "exited" => pipeline_exit = <<1>>

C24_Witness ==
    /\ pipeline_pc = "exited"
    /\ source_stage = target_stage
    /\ info

\* What _wait_for_deployment has done after each poll: it has returned True
\* when the poll observed 'Succeeded' and False when it observed 'Failed';
\* after any other observation it is still polling, or has returned False
\* with the elapsed time at or past the timeout.
WaitOutcome ==
    /\ status = "Succeeded" => (pipeline_pc = "exited" /\ success = <<TRUE>>)
    /\ status = "Failed" => (pipeline_pc = "exited" /\ success = <<FALSE>>)
    /\ status \in {"NotStarted", "Running", "Cancelled", "error"} =>
          \/ pipeline_pc = "polling"
          \/ pipeline_pc = "exited" /\ success = <<FALSE>> /\ elapsed >= timeout

\* C25: _wait_for_deployment always terminates when every status request
\* returns or raises; it returns True on the first poll that observes
\* 'Succeeded', False on the first that observes 'Failed', keeps polling on
\* 'NotStarted', 'Running', unknown statuses and request errors, and returns
\* False once the elapsed time reaches the timeout.
C25_WaitTerminates ==
    /\ []WaitOutcome
    /\ (pipeline_pc = "polling") ~> (pipeline_pc = "exited")

C25_Witness ==
    /\ pipeline_pc = "exited"
    /\ status = "Cancelled"
    /\ success = <<FALSE>>
    /\ elapsed >= timeout

-----------------------------------------------------------------------------
(* Properties of the deployment validation, checked under SpecValidation   *)

\* C23 as stated: when the critical check passes and a non-critical check
\* only warns (the notebook list or the item list cannot be retrieved), the
\* run with --strict-mode ends as VALIDATION FAILED with exit status 1.
C23_AsStated ==
    ( /\ validate_pc = "exited"
      /\ strict_mode
      /\ checks # <<>>
      /\ warned # {} ) => validate_exit = <<1>>

-----------------------------------------------------------------------------
(* Properties of deploy_to_fabric.py, checked under SpecDeploy             *)

\* Every selected artifact type's deploy step returned True.
EveryStepPassed ==
    \A type \in Selected(artifact_type) :
        [type |-> type, result |-> TRUE] \in steps

\* C26: when --validate-before-deploy is given and workspace validation
\* fails, main exits 1 with no create or update request sent; otherwise it
\* exits 0 iff every selected artifact type's deploy step returned True.
\* deploy_notebooks returns True iff every notebook file was deployed, and
\* every file is attempted whatever became of the others.
C26_ExitFollowsSteps ==
    /\ ( /\ validate_before_deploy
         /\ workspace_valid = <<FALSE>> )
       => /\ deploy_exit = <<1>>
          /\ sent = {}
    /\ ( /\ deploy_pc = "exited"
         /\ ~(validate_before_deploy /\ workspace_valid = <<FALSE>>) )
       => (deploy_exit = <<0>> <=> EveryStepPassed)
    /\ \A s \in steps :
          s.type = "notebooks"
          => /\ Stems(attempted) = Stems(notebook_files)
             /\ s.result <=> \A a \in attempted : a.result

\* Both files were attempted, the first one failed, and main exited 1.
C26_Witness ==
    /\ deploy_pc = "exited"
    /\ deploy_exit = <<1>>
    /\ Cardinality(attempted) = 2
    /\ \E a, b \in attempted : ~a.result /\ b.result

\* C29: a create request is sent only for a name the workspace does not
\* hold, and a name the workspace holds gets an update request.
C29_AsStated ==
    \A r \in sent : r.request = "create" <=> ~r.existed

-----------------------------------------------------------------------------
(* Properties of the validators, checked under SpecValidators              *)

\* C30: validate_all returns False iff the call appended an entry to
\* self.errors; a call that appended warnings only returns True.
C30_ResultAgreesWithErrors ==
    returned # <<>>
    => (returned[Len(returned)] = FALSE <=> Len(errors) > errors_before[1])

\* A second call that finds warnings only returns True although self.errors
\* still holds the entries of the first call.
C30_Witness ==
    /\ returned = <<FALSE, TRUE>>
    /\ errors # <<>>
    /\ Len(errors) = errors_before[1]
    /\ Len(warnings) > 0
    /\ validate_all(validator, directory).warnings # <<>>

====
